---- MODULE Spec2Model ----
(***************************************************************************)
(* cc-statusline: the script-generation and caching engine.                *)
(*                                                                         *)
(* A generated script is modelled as the sequence of the blocks the        *)
(* generators emit.  A block records the template text it stands for (id), *)
(* the features it renders (parts, in emission order), the shell names it  *)
(* assigns or defines (defs), the names a jq-driven eval sets at run time  *)
(* (jq), the names it reads or calls (refs), behavioural attributes        *)
(* (attrs) and the numbers interpolated into it (n: the creation timestamp *)
(* of the header, the thresholds of the system block).                     *)
(*                                                                         *)
(* md5 digests are modelled by the token sequence that is hashed:          *)
(* collisions of the digest are not modelled.                              *)
(***************************************************************************)
EXTENDS Integers, Sequences, FiniteSets, TLC

VARIABLES
  now,               \* Date.now(), in milliseconds
  memoryCache,       \* CacheManager.memoryCache: a Map, kept in insertion order
  maxMemoryEntries,  \* CacheManager.config.maxMemoryEntries
  combinationCache,  \* TemplateCache.combinationCache: a Map, in insertion order
  fragmentCache,     \* TemplateCache.fragmentCache
  metrics,           \* CacheManager.metrics
  cfg,               \* the caller's Configuration object after the last call
  out,               \* the string the last generateBashStatusline call returned
  last,              \* what the last call did
  prev,              \* input and output of the call before the last one
  calls,             \* number of calls made
  getRes,            \* what the last direct cache-manager operation did
  origin,            \* for each whole-script cache key, the configuration
                     \* whose script was stored under it
  opt,               \* what the last direct optimizeBashCode call did
  clock,             \* the time of day where the generated script runs, in seconds
  disk,              \* the cache files under ~/.claude, one for each cache
  proc,              \* the invocations of the generated script
  lockDir,           \* whether the directory /tmp/ccusage_statusline.lock exists
  pidFile,           \* the file /tmp/ccusage_statusline.pid
  locker,            \* the invocations of the script with the lock protocol
  sess,              \* the shell variables of the session time calculation
  color,             \* the environment and the shell variables of the color setup
  sys,               \* the machine, the system cache file and the runs of the system block
  inst               \* the files of the .claude directory and the init command's installation

vars == <<now, memoryCache, maxMemoryEntries, combinationCache, fragmentCache,
          metrics, cfg, out, last, prev, calls, getRes, origin, opt, clock, disk, proc,
          lockDir, pidFile, locker, sess,
          color, sys, inst>>

-----------------------------------------------------------------------------
(* Bounds of the model *)

TickStep == 5000
MaxTicks == 2
MaxCalls == 3
MaxCap == 3
MaxOps == 4

(* Program constants *)

memoryTTL == 5000
defaultMaxMemoryEntries == 100
templateFragmentTTL == 300000
templateCombinationTTL == 60000
combinationCacheLimit == 50
combinationCacheEvict == 10

-----------------------------------------------------------------------------
(* A JavaScript Map: a sequence of [k, e] pairs in insertion order *)

MapKeys(m) == {m[i].k : i \in 1..Len(m)}

MapHas(m, k) == k \in MapKeys(m)

MapIndex(m, k) == CHOOSE i \in 1..Len(m) : m[i].k = k

MapGet(m, k) == m[MapIndex(m, k)].e

MapDelete(m, k) == SelectSeq(m, LAMBDA p : p.k # k)

MapSet(m, k, e) ==
  IF MapHas(m, k)
    THEN [i \in 1..Len(m) |-> IF m[i].k = k THEN [k |-> k, e |-> e] ELSE m[i]]
    ELSE Append(m, [k |-> k, e |-> e])

-----------------------------------------------------------------------------
(* CacheManager *)

BoolStr(b) == IF b THEN "true" ELSE "false"

\* `${type}_${md5(context)}`
generateCacheKey(type, context) == <<type>> \o context

TtlOf(type) ==
  IF type = "template_fragment" THEN templateFragmentTTL
  ELSE IF type = "template_combination" THEN templateCombinationTTL
  ELSE memoryTTL

\* Faulty variants of getFromMemory, for sensitivity checks of the properties
\* below: one that never looks at the expiry, one that never finds an entry
\* alive, one that does not count the hit
GetMutantNoExpiry(mc, key, t) ==
  IF ~MapHas(mc, key)
    THEN [hit |-> FALSE, value |-> <<>>, mc |-> MapDelete(mc, key)]
    ELSE LET e == MapGet(mc, key) IN
         [hit |-> TRUE, value |-> e.value,
          mc |-> MapSet(mc, key, [e EXCEPT !.hits = @ + 1])]

GetMutantAlwaysExpired(mc, key, t) ==
  [hit |-> FALSE, value |-> <<>>, mc |-> MapDelete(mc, key)]

GetMutantNoCount(mc, key, t) ==
  IF ~MapHas(mc, key) \/ t > MapGet(mc, key).expiry
    THEN [hit |-> FALSE, value |-> <<>>, mc |-> MapDelete(mc, key)]
    ELSE [hit |-> TRUE, value |-> MapGet(mc, key).value, mc |-> mc]

\* getFromMemory: the returned value (hit = FALSE stands for null) and the
\* cache after the call
getFromMemory(mc, key, t) ==
  IF ~MapHas(mc, key) \/ t > MapGet(mc, key).expiry
    THEN [hit |-> FALSE, value |-> <<>>, mc |-> MapDelete(mc, key)]
    ELSE LET e == MapGet(mc, key) IN
         [hit |-> TRUE, value |-> e.value,
          mc |-> MapSet(mc, key, [e EXCEPT !.hits = @ + 1])]

\* Array.prototype.sort by hits, ascending and stable: the entry at index i
\* comes before the entry at index j iff it has fewer hits, or as many and i < j
SortedPos(mc, i) ==
  Cardinality({j \in 1..Len(mc) :
                 \/ mc[j].e.hits < mc[i].e.hits
                 \/ mc[j].e.hits = mc[i].e.hits /\ j < i}) + 1

cleanupMemoryCache(mc, cap, t) ==
  LET expired == {i \in 1..Len(mc) : t > mc[i].e.expiry}
      cut == (cap * 2) \div 10        \* Math.floor(maxMemoryEntries * 0.2)
      toDelete == IF expired = {} /\ Len(mc) >= cap
                    THEN {i \in 1..Len(mc) : SortedPos(mc, i) <= cut}
                    ELSE expired
      keep(p) == \E i \in 1..Len(mc) : i \notin toDelete /\ mc[i] = p
  IN SelectSeq(mc, keep)

setInMemory(mc, cap, key, value, type, context, t) ==
  LET cleaned == IF Len(mc) >= cap THEN cleanupMemoryCache(mc, cap, t) ELSE mc
      entry == [type |-> type, context |-> context, timestamp |-> t,
                value |-> value, expiry |-> t + TtlOf(type), hits |-> 0]
  IN MapSet(cleaned, key, entry)

-----------------------------------------------------------------------------
(* Configuration *)

Features == {"directory", "git", "model", "usage", "session", "tokens",
             "burnrate", "cpu", "memory", "load"}

Themes == {"minimal", "detailed", "compact"}

\* The order of the checkbox choices of the configuration prompt
PromptOrder == <<"directory", "git", "model", "cpu", "memory", "load",
                 "usage", "session", "tokens", "burnrate">>

\* Array.prototype.sort() with no comparator orders strings by code unit
SortRank(f) ==
  CASE f = "burnrate" -> 1 [] f = "cpu" -> 2 [] f = "directory" -> 3
    [] f = "git" -> 4 [] f = "load" -> 5 [] f = "memory" -> 6
    [] f = "model" -> 7 [] f = "session" -> 8 [] f = "tokens" -> 9
    [] f = "usage" -> 10

JsSort(s) == SortSeq(s, LAMBDA a, b : SortRank(a) < SortRank(b))

Range(s) == {s[i] : i \in 1..Len(s)}

NoSM == [present |-> FALSE, refreshRate |-> 0, cpuThreshold |-> 0,
         memoryThreshold |-> 0, loadThreshold |-> 0]

\* loadThreshold is kept in tenths (2.0 is 20)
SM(rr, cpu, mem, load) ==
  [present |-> TRUE, refreshRate |-> rr, cpuThreshold |-> cpu,
   memoryThreshold |-> mem, loadThreshold |-> load]

Config(fs, colors, theme, ccusage, logging, emojis, sm) ==
  [features |-> fs, colors |-> colors, theme |-> theme,
   ccusageIntegration |-> ccusage, logging |-> logging,
   customEmojis |-> emojis, systemMonitoring |-> sm]

-----------------------------------------------------------------------------
(* Blocks of generated text *)

Blk(stage, id, parts, defs, jq, refs, attrs, n) ==
  [stage |-> stage, id |-> id, parts |-> parts, defs |-> defs, jq |-> jq,
   refs |-> refs, attrs |-> attrs, n |-> n]

\* parts.filter(Boolean).join('\n'): the empty fragments vanish
RECURSIVE Join(_)
Join(ps) == IF ps = <<>> THEN <<>> ELSE Head(ps) \o Join(Tail(ps))

-----------------------------------------------------------------------------
(* bash-optimizer: the variable renaming of applyCompactVariables, which   *)
(* rewrites assignments `name=` and references `$name`, `${name}`; a jq    *)
(* object key is neither and is left alone.  The other passes rewrite      *)
(* command idioms inside a block and do not change what a block defines,   *)
(* reads or renders.                                                       *)

COMPACT_VARIABLES(v) ==
  CASE v = "current_directory_path" -> "cwd"
    [] v = "current_dir" -> "cwd"
    [] v = "home_directory" -> "home"
    [] v = "git_branch_name" -> "git_branch"
    [] v = "git_repository" -> "git_repo"
    [] v = "is_git_repository" -> "is_git_repo"
    [] v = "repository_cache_file" -> "repo_cache_file"
    [] v = "git_cache_file" -> "git_cache"
    [] v = "session_percentage" -> "pct"
    [] v = "session_percent" -> "pct"
    [] v = "total_tokens" -> "tot_tokens"
    [] v = "tokens_per_minute" -> "tpm"
    [] v = "cost_per_hour" -> "cost_ph"
    [] v = "remaining_time" -> "rem_time"
    [] v = "elapsed_time" -> "elapsed"
    [] v = "current_time" -> "now"
    [] v = "cache_file_path" -> "cache_file"
    [] v = "cached_result" -> "cached"
    [] v = "fresh_result" -> "fresh"
    [] v = "use_cache_flag" -> "use_cache"
    [] v = "use_color_flag" -> "use_color"
    [] v = "color_prefix" -> "clr_pre"
    [] v = "color_suffix" -> "clr_suf"
    [] OTHER -> v

applyCompactVariables(b) ==
  [b EXCEPT !.defs = {COMPACT_VARIABLES(v) : v \in @},
            !.refs = {COMPACT_VARIABLES(v) : v \in @}]

optimizeBashCode(code) == [i \in 1..Len(code) |-> applyCompactVariables(code[i])]

-----------------------------------------------------------------------------
(* generators/bash-optimizer.ts on text.  A text is a sequence of tokens:   *)
(* the pieces of shell text the rewrite passes and the validation tell      *)
(* apart, and literal text in between that none of their patterns matches.  *)

Tok(k, v, n, x) == [k |-> k, v |-> v, n |-> n, x |-> x]

\* name=
Assign(v) == Tok("assign", v, 0, <<>>)

\* $name (form 0), ${name} (form 1), ${name:-} (form 2)
Ref(v, form) == Tok("ref", v, form, <<>>)

\* $(date +%s), wrapped n times in ${EPOCHSECONDS:-...}
Epoch(n) == Tok("epoch", "", n, <<>>)

\* timeout 3s, timeout 5s, timeout 10s
Timeout(d) == Tok("timeout", d, 0, <<>>)

\* 2>/dev/null
DevNull == Tok("devnull", "", 0, <<>>)

\* a call of a shell function: its name and a blank
Fn(v) == Tok("fn", v, 0, <<>>)

\* text in which no pattern of the optimizer matches
Lit(s) == Tok("lit", s, 0, <<>>)

\* if [ "$(x)" ]; then
IfSubst(x) == Tok("ifsubst", "", 0, x)

\* echo "$x" | jq 'q' | head (n = 0), echo "$x" | jq -r 'q' | head (n = 1)
PipeHead(x, q, n) == Tok("pipehead", q, n, x)

\* The tokens of a text with those inside its compound tokens
RECURSIVE Flat(_)
Flat(text) ==
  IF text = <<>> THEN <<>>
  ELSE <<Head(text)>> \o Flat(Head(text).x) \o Flat(Tail(text))

RECURSIVE Size(_)
Size(text) ==
  IF text = <<>> THEN 0
  ELSE LET t == Head(text)
           own == CASE t.k = "assign" -> Len(t.v) + 1
                    [] t.k = "ref" -> Len(t.v) + (CASE t.n = 0 -> 1 [] t.n = 1 -> 3
                                                    [] t.n = 2 -> 5)
                    [] t.k = "epoch" -> Len("$(date +%s)")
                                        + t.n * Len("${EPOCHSECONDS:-}")
                    [] t.k = "timeout" -> Len("timeout ") + Len(t.v)
                    [] t.k = "devnull" -> Len("2>/dev/null")
                    [] t.k = "fn" -> Len(t.v) + 1
                    [] t.k = "lit" -> Len(t.v)
                    [] t.k = "ifsubst" -> Len("if [ \"$()\" ]; then") + Size(t.x)
                    [] t.k = "pipehead" ->
                         Len("echo \"$\" | jq '' | head") + Len(t.v) + Size(t.x)
                         + (IF t.n = 1 THEN Len("-r ") ELSE 0)
       IN own + Size(Tail(text))

\* The names COMPACT_VARIABLES has an entry for
CompactKeys ==
  {"current_directory_path", "current_dir", "home_directory",
   "git_branch_name", "git_repository", "is_git_repository",
   "repository_cache_file", "git_cache_file", "session_percentage",
   "session_percent", "total_tokens", "tokens_per_minute", "cost_per_hour",
   "remaining_time", "elapsed_time", "current_time", "cache_file_path",
   "cached_result", "fresh_result", "use_cache_flag", "use_color_flag",
   "color_prefix", "color_suffix"}

\* applyCompactVariables: verbose= becomes compact=; $verbose and ${verbose}
\* become $compact; of ${verbose:-} the pattern \$\{?verbose\}? matches
\* ${verbose only, which leaves $compact:-}
RECURSIVE applyCompactVariablesText(_)
applyCompactVariablesText(text) ==
  IF text = <<>> THEN <<>>
  ELSE LET t == Head(text)
           new == CASE t.k = "assign" -> <<Assign(COMPACT_VARIABLES(t.v))>>
                    [] t.k = "ref" /\ t.v \in CompactKeys /\ t.n \in {0, 1} ->
                         <<Ref(COMPACT_VARIABLES(t.v), 0)>>
                    [] t.k = "ref" /\ t.v \in CompactKeys /\ t.n = 2 ->
                         <<Ref(COMPACT_VARIABLES(t.v), 0), Lit(":-}")>>
                    [] t.k \in {"ifsubst", "pipehead"} ->
                         <<[t EXCEPT !.x = applyCompactVariablesText(@)]>>
                    [] OTHER -> <<t>>
       IN new \o applyCompactVariablesText(Tail(text))

\* applyBuiltinReplacements: every $(date +%s) becomes
\* ${EPOCHSECONDS:-$(date +%s)}, also one that is wrapped already.  The other
\* entries of BUILTIN_REPLACEMENTS match literal texts no token stands for.
RECURSIVE applyBuiltinReplacementsText(_)
applyBuiltinReplacementsText(text) ==
  IF text = <<>> THEN <<>>
  ELSE LET t == Head(text)
           new == CASE t.k = "epoch" -> Epoch(t.n + 1)
                    [] t.k \in {"ifsubst", "pipehead"} ->
                         [t EXCEPT !.x = applyBuiltinReplacementsText(@)]
                    [] OTHER -> t
       IN <<new>> \o applyBuiltinReplacementsText(Tail(text))

\* No token of the text x is of one of the kinds
NoneOf(x, kinds) == \A i \in 1..Len(x) : x[i].k \notin kinds

\* reduceSubshells: if [ "$(x)" ]; then becomes if x >/dev/null 2>&1; then,
\* for an x without a closing parenthesis
RECURSIVE reduceSubshellsText(_)
reduceSubshellsText(text) ==
  IF text = <<>> THEN <<>>
  ELSE LET t == Head(text)
           new == IF t.k = "ifsubst" /\ t.x # <<>>
                     /\ NoneOf(t.x, {"epoch", "ifsubst", "pipehead"})
                    THEN <<Lit("if ")>> \o t.x \o <<Lit(" >/dev/null 2>&1; then")>>
                    ELSE <<t>>
       IN new \o reduceSubshellsText(Tail(text))

\* combinePipeOperations: echo "$x" | jq 'q' | head becomes
\* echo "$1" | jq -r 'q' | head: in the replacement 'echo "$$1" ...' the $$
\* stands for a dollar sign and the 1 for itself, so x is dropped
RECURSIVE combinePipeOperationsText(_)
combinePipeOperationsText(text) ==
  IF text = <<>> THEN <<>>
  ELSE LET t == Head(text)
           new == IF t.k = "pipehead" /\ t.n = 0 /\ t.x # <<>>
                    THEN PipeHead(<<Lit("1")>>, t.v, 1)
                    ELSE t
       IN <<new>> \o combinePipeOperationsText(Tail(text))

criticalFunctions ==
  {"validate_numeric", "validate_cpu_percent", "validate_memory_gb",
   "validate_load_average", "apply_cpu_bounds", "apply_memory_bounds",
   "apply_load_bounds"}

timeoutCommands == {"3s", "5s"}

\* The number of tokens of the text, compound ones opened, that satisfy P
CountTok(text, P(_)) ==
  Cardinality({i \in 1..Len(Flat(text)) : P(Flat(text)[i])})

\* Opening minus closing braces: every token is balanced but the ":-}" that
\* applyCompactVariables leaves behind
CurlyBalance(text) == 0 - CountTok(text, LAMBDA t : t.k = "lit" /\ t.v = ":-}")

\* validateSystemMonitoringIntegrity
validateSystemMonitoringIntegrity(original, optimized) ==
  LET has(text, f) == CountTok(text, LAMBDA t : t.k = "fn" /\ t.v = f) > 0
      timeouts(text, d) == CountTok(text, LAMBDA t : t.k = "timeout" /\ t.v = d)
  IN {"critical_function_removed" : f \in
        {g \in criticalFunctions \cup {"validate_platform"} :
           has(original, g) /\ ~has(optimized, g)}}
     \cup {"timeout_protection_removed" : d \in
        {e \in timeoutCommands : timeouts(original, e) > timeouts(optimized, e)}}

\* validateVariableReferences: a declaration of the original counts as lost
\* if neither its name is declared in the optimized text nor
\* COMPACT_VARIABLES has an entry for it
validateVariableReferences(original, optimized) ==
  LET declared(text) == {Flat(text)[i].v :
                       i \in {j \in 1..Len(Flat(text)) : Flat(text)[j].k = "assign"}}
  IN {"variable_declarations_removed" : v \in
        {w \in declared(original) : w \notin declared(optimized) /\ w \notin CompactKeys}}

\* validateSyntaxIntegrity: of its counts the rewrites change the balance of
\* the braces only; more than two unmatched ones are reported
validateSyntaxIntegrity(optimized) ==
  LET b == CurlyBalance(optimized)
  IN IF b > 2 \/ b < -2 THEN {"unmatched_curly_brackets"} ELSE {}

\* validatePerformanceImpact: a size grown by more than half, or fewer
\* matches of timeout \d+s or of 2>/dev/null than before
validatePerformanceImpact(original, optimized) ==
  LET n(text, kind) == CountTok(text, LAMBDA t : t.k = kind)
  IN (IF Size(original) > 0
         /\ 2 * (Size(optimized) - Size(original)) > Size(original)
        THEN {"size_increased"} ELSE {})
     \cup {"performance_pattern_reduced" : kind \in
             {k \in {"timeout", "devnull"} : n(original, k) > n(optimized, k)}}

\* validateOptimizations: the issues found; isValid means there is none
validateOptimizations(original, optimized) ==
  validateSystemMonitoringIntegrity(original, optimized)
  \cup validateVariableReferences(original, optimized)
  \cup validateSyntaxIntegrity(optimized)
  \cup validatePerformanceImpact(original, optimized)

\* The steps of optimizeBashCode in their order; an exception may be thrown
\* in any one of them
OptimizationSteps ==
  <<"compactVariables", "builtinReplacements", "reduceSubshells",
    "combinePipeOperations", "validateOptimizations">>

StepIndex(step) ==
  IF step = "none" THEN Len(OptimizationSteps) + 1
  ELSE CHOOSE i \in 1..Len(OptimizationSteps) : OptimizationSteps[i] = step

\* The text after the first n rewrite passes
AfterSteps(bashCode, n) ==
  LET s1 == IF n >= 1 THEN applyCompactVariablesText(bashCode) ELSE bashCode
      s2 == IF n >= 2 THEN applyBuiltinReplacementsText(s1) ELSE s1
      s3 == IF n >= 3 THEN reduceSubshellsText(s2) ELSE s2
      s4 == IF n >= 4 THEN combinePipeOperationsText(s3) ELSE s3
  IN s4

\* Faulty variants of optimizeBashCode on text, for sensitivity checks: one
\* whose catch block returns the text as far as it was rewritten, one that
\* rolls back when the validation finds an issue
OptimizeMutantNoRollback(bashCode, fault) ==
  LET optimized == AfterSteps(bashCode, StepIndex(fault) - 1)
  IN [output |-> optimized, optimized |-> optimized,
      issues |-> IF fault = "none" THEN validateOptimizations(bashCode, optimized)
                 ELSE {},
      caught |-> fault # "none", thrown |-> FALSE]

OptimizeMutantFailClosed(bashCode, fault) ==
  LET optimized == AfterSteps(bashCode, StepIndex(fault) - 1)
      issues == IF fault = "none" THEN validateOptimizations(bashCode, optimized)
                ELSE {}
  IN [output |-> IF fault # "none" \/ issues # {} THEN bashCode ELSE optimized,
      optimized |-> optimized, issues |-> issues,
      caught |-> fault # "none", thrown |-> FALSE]

\* optimizeBashCode(bashCode) with the default options, where fault names the
\* step in which an exception is thrown ("none": in no step).  output is the
\* returned text, optimized the text as far as the passes rewrote it, issues
\* what the final validation found, caught whether the catch block ran, and
\* thrown whether an exception reached the caller.
optimizeBashCodeText(bashCode, fault) ==
  LET optimized == AfterSteps(bashCode, StepIndex(fault) - 1)
  IN IF fault = "none"
       THEN [output |-> optimized, optimized |-> optimized,
             issues |-> validateOptimizations(bashCode, optimized),
             caught |-> FALSE, thrown |-> FALSE]
       ELSE [output |-> bashCode, optimized |-> optimized, issues |-> {},
             caught |-> TRUE, thrown |-> FALSE]

-----------------------------------------------------------------------------
(* features/colors.ts *)

generateColorBashCode(enabled) ==
  optimizeBashCode(<<
    Blk("colors", IF enabled THEN "colors_enabled" ELSE "colors_disabled",
        <<>>, {"use_color", "C", "RST"}, {}, {}, {}, <<>>) >>)

generateBasicColors ==
  optimizeBashCode(<<
    Blk("basic_colors", "basic_colors", <<>>,
        {"dir_clr", "model_clr", "ver_clr", "rst"}, {}, {"use_color"}, {}, <<>>) >>)

-----------------------------------------------------------------------------
(* utils/cache-manager.ts: generators of shell text *)

\* generateCacheInitCode: defines init_cache_directory and cleanup_cache_files,
\* calls init_cache_directory, and on one run in a hundred (or under
\* CC_STATUSLINE_DEBUG) calls cleanup_cache_files, whose body calls
\* validate_cache_integrity and repair_cache_file
CacheInitDefs == {"init_cache_directory", "cleanup_cache_files"}

CacheInitRefs == {"validate_cache_integrity", "repair_cache_file"}

\* generateFileCacheCode
FileCacheDefs ==
  {"cache_file", "cache_ttl", "use_cache", "cache_valid",
   "validate_cache_integrity", "repair_cache_file", "cache_age",
   "cached_result", "fresh_result", "cmd_exit_code", "temp_cache"}

-----------------------------------------------------------------------------
(* features/git.ts *)

JsonGit(gc) ==
  <<BoolStr(gc.enabled), BoolStr(gc.showBranch), BoolStr(gc.showChanges),
    BoolStr(gc.compactMode)>>

GitBashText(gc, colors) ==
  <<Blk("data", "data_git", <<>>,
        {"git_clr", "rst", "git_branch", "repo_cache", "ttl", "now",
         "cache_time", "is_git_repo"},
        {}, IF colors THEN {"use_color"} ELSE {},
        {"invokes_git", "process_cache", "disk_cache"}, <<>>)>>

\* A faulty variant of generateGitBashCode whose cache key leaves out the
\* colors flag, for sensitivity checks
GitMutantKeyWithoutColors(gc, colors, mc, cap, t) ==
  IF ~gc.enabled THEN [code |-> <<>>, mc |-> mc, hit |-> FALSE]
  ELSE
    LET cacheContext == JsonGit(gc) \o <<"git_bash_code">>
        cacheKey == generateCacheKey("git", cacheContext)
        cached == getFromMemory(mc, cacheKey, t)
        optimizedCode == optimizeBashCode(GitBashText(gc, colors))
    IN IF cached.hit /\ cached.value # <<>>
         THEN [code |-> cached.value, mc |-> cached.mc, hit |-> TRUE]
         ELSE [code |-> optimizedCode,
               mc |-> setInMemory(cached.mc, cap, cacheKey, optimizedCode,
                                  "git", cacheContext, t),
               hit |-> FALSE]

\* The fragment, the memory cache after the call, and whether the fragment
\* came from the memory cache
generateGitBashCode(gc, colors, mc, cap, t) ==
  IF ~gc.enabled THEN [code |-> <<>>, mc |-> mc, hit |-> FALSE]
  ELSE
    LET cacheContext == JsonGit(gc) \o <<BoolStr(colors), "git_bash_code">>
        cacheKey == generateCacheKey("git", cacheContext)
        cached == getFromMemory(mc, cacheKey, t)
        optimizedCode == optimizeBashCode(GitBashText(gc, colors))
    IN IF cached.hit /\ cached.value # <<>>
         THEN [code |-> cached.value, mc |-> cached.mc, hit |-> TRUE]
         ELSE [code |-> optimizedCode,
               mc |-> setInMemory(cached.mc, cap, cacheKey, optimizedCode,
                                  "git", cacheContext, t),
               hit |-> FALSE]

generateGitDisplayCode(gc, colors, emojis) ==
  IF ~gc.enabled THEN <<>>
  ELSE optimizeBashCode(<<
    Blk("display", "display_git", <<"git">>, {}, {},
        {"git_branch"} \cup (IF colors THEN {"git_clr", "rst"} ELSE {}),
        {IF emojis THEN "emoji" ELSE "label"}, <<>>) >>)

generateGitUtilities ==
  optimizeBashCode(<<
    Blk("utilities", "utilities_git", <<>>,
        {"num_or_zero"} \cup CacheInitDefs, {}, CacheInitRefs, {}, <<>>) >>)

-----------------------------------------------------------------------------
(* features/usage.ts *)

JsonUsage(uc) ==
  <<BoolStr(uc.enabled), BoolStr(uc.showCost), BoolStr(uc.showTokens),
    BoolStr(uc.showBurnRate), BoolStr(uc.showSession),
    BoolStr(uc.showProgressBar)>>

UsageBashText(uc, colors) ==
  LET session == uc.showSession \/ uc.showProgressBar
      jqFields ==
        (IF uc.showCost THEN {"cost_usd", "cost_per_hour"} ELSE {})
        \cup (IF uc.showTokens THEN {"tot_tokens"} ELSE {})
        \cup (IF uc.showBurnRate THEN {"tpm"} ELSE {})
        \cup (IF session THEN {"reset_time_str", "start_time_str"} ELSE {})
  IN <<Blk("data", "data_usage", <<>>,
           {"usage_clr", "cost_clr", "sess_clr", "sess_txt", "pct",
            "sess_bar", "cost_usd", "cost_ph", "tpm", "tot_tokens",
            "blocks_output"}
           \cup FileCacheDefs
           \cup (IF session
                   THEN {"start_sec", "end_sec", "now_sec", "total", "elapsed",
                         "remaining", "rh", "rm", "end_hm"}
                   ELSE {}),
           jqFields,
           {"cached_result"}
           \cup (IF colors THEN {"use_color"} ELSE {})
           \cup (IF session
                   THEN {"reset_time_str", "start_time_str", "to_epoch",
                         "fmt_time_hm"}
                   ELSE {})
           \cup (IF uc.showProgressBar THEN {"progress_bar"} ELSE {}),
           {"invokes_ccusage", "disk_cache", "timeout_ccusage", "timeout_npx"},
           <<>>)>>

generateUsageBashCode(uc, colors, mc, cap, t) ==
  IF ~uc.enabled THEN [code |-> <<>>, mc |-> mc, hit |-> FALSE]
  ELSE
    LET cacheContext == JsonUsage(uc) \o <<BoolStr(colors)>>
        cacheKey == generateCacheKey("ccusage", cacheContext)
        cached == getFromMemory(mc, cacheKey, t)
        optimizedCode == optimizeBashCode(UsageBashText(uc, colors))
    IN IF cached.hit /\ cached.value # <<>>
         THEN [code |-> cached.value, mc |-> cached.mc, hit |-> TRUE]
         ELSE [code |-> optimizedCode,
               mc |-> setInMemory(cached.mc, cap, cacheKey, optimizedCode,
                                  "ccusage", cacheContext, t),
               hit |-> FALSE]

generateUsageUtilities ==
  optimizeBashCode(<<
    Blk("utilities", "utilities_usage", <<>>,
        {"to_epoch", "fmt_time_hm", "progress_bar"}, {}, {}, {}, <<>>) >>)

\* One call emits the combined usage render block: session, then cost, then
\* tokens (with the burn rate inside the tokens line)
generateUsageDisplayCode(uc, colors, emojis) ==
  IF ~uc.enabled THEN <<>>
  ELSE
    LET parts ==
          (IF uc.showSession THEN <<"session">> ELSE <<>>)
          \o (IF uc.showCost THEN <<"usage">> ELSE <<>>)
          \o (IF uc.showTokens THEN <<"tokens">> ELSE <<>>)
          \o (IF uc.showTokens /\ uc.showBurnRate THEN <<"burnrate">> ELSE <<>>)
        refs ==
          (IF uc.showSession THEN {"sess_txt", "sess_clr", "rst"} ELSE {})
          \cup (IF uc.showSession /\ uc.showProgressBar THEN {"sess_bar"} ELSE {})
          \cup (IF uc.showCost
                  THEN {"cost_usd", "cost_ph", "cost_clr", "rst"} ELSE {})
          \cup (IF uc.showTokens
                  THEN {"tot_tokens", "tpm", "usage_clr", "rst"} ELSE {})
    IN IF parts = <<>> THEN <<>>
       ELSE optimizeBashCode(<<
         Blk("display", "display_usage", parts, {}, {}, refs,
             {IF emojis THEN "emoji" ELSE "label"}, <<>>) >>)

-----------------------------------------------------------------------------
(* features/system.ts *)

\* x || d
OrDefault(x, d) == IF x = 0 THEN d ELSE x

\* Math.round(x * 1.1)
Round110(x) == (11 * x + 5) \div 10

CpuThresholdOf(sc) == IF sc.hasThresholds THEN OrDefault(sc.cpuThreshold, 75) ELSE 75

MemThresholdOf(sc) == IF sc.hasThresholds THEN OrDefault(sc.memoryThreshold, 80) ELSE 80

LoadThresholdOf(sc) == IF sc.hasThresholds THEN OrDefault(sc.loadThreshold, 20) ELSE 20

JsonSystem(sc) ==
  <<BoolStr(sc.enabled), BoolStr(sc.showCPU), BoolStr(sc.showRAM),
    BoolStr(sc.showLoad), ToString(sc.refreshRate), sc.displayFormat>>
  \o (IF sc.hasThresholds
        THEN <<ToString(sc.cpuThreshold), ToString(sc.memoryThreshold),
               ToString(sc.loadThreshold)>>
        ELSE <<>>)

SystemBashText(sc, colors) ==
  <<Blk("data", "data_system", <<>>,
        {"cpu_clr", "mem_clr", "load_clr", "sys_clr", "cpu_percent",
         "mem_used_gb", "mem_total_gb", "mem_percent", "load_1min",
         "load_5min", "load_15min", "validate_numeric", "validate_cpu_percent",
         "validate_memory_gb", "validate_memory_percent",
         "validate_load_average", "validate_platform", "apply_cpu_bounds",
         "apply_memory_bounds", "apply_load_bounds", "sys_cache", "sys_ttl",
         "now", "sys_cached", "cache_time"},
        {}, IF colors THEN {"use_color"} ELSE {},
        {"disk_cache"},
        (IF colors
           THEN <<Round110(CpuThresholdOf(sc)), CpuThresholdOf(sc),
                  Round110(MemThresholdOf(sc)), MemThresholdOf(sc),
                  Round110(LoadThresholdOf(sc)), LoadThresholdOf(sc)>>
           ELSE <<>>)
        \o <<sc.refreshRate>>)>>

generateSystemBashCode(sc, colors, mc, cap, t) ==
  IF ~sc.enabled THEN [code |-> <<>>, mc |-> mc, hit |-> FALSE]
  ELSE
    LET cacheContext == JsonSystem(sc) \o <<BoolStr(colors), "system_bash_code">>
        cacheKey == generateCacheKey("system", cacheContext)
        cached == getFromMemory(mc, cacheKey, t)
        optimizedCode == optimizeBashCode(SystemBashText(sc, colors))
    IN IF cached.hit /\ cached.value # <<>>
         THEN [code |-> cached.value, mc |-> cached.mc, hit |-> TRUE]
         ELSE [code |-> optimizedCode,
               mc |-> setInMemory(cached.mc, cap, cacheKey, optimizedCode,
                                  "system", cacheContext, t),
               hit |-> FALSE]

\* One call emits the combined system render block.  In the compact format
\* the CPU line is followed by the grouped line, which shows the CPU again
\* and prints the memory and the load behind a glyph written into the text.
generateSystemDisplayCode(sc, emojis) ==
  IF ~sc.enabled THEN <<>>
  ELSE
    LET compact == sc.displayFormat = "compact"
                   /\ (sc.showCPU \/ sc.showRAM \/ sc.showLoad)
        parts ==
          (IF sc.showCPU THEN <<"cpu">> ELSE <<>>)
          \o (IF compact /\ sc.showCPU THEN <<"cpu">> ELSE <<>>)
          \o (IF sc.showRAM THEN <<"memory">> ELSE <<>>)
          \o (IF sc.showLoad THEN <<"load">> ELSE <<>>)
        refs ==
          {"rst"}
          \cup (IF sc.showCPU
                  THEN {"cpu_percent", "format_cpu_with_status", "cpu_clr"}
                  ELSE {})
          \cup (IF compact
                  THEN {"sys_clr", "cpu_percent", "mem_total_gb", "load_1min"}
                  ELSE {})
          \cup (IF sc.showRAM
                  THEN {"mem_total_gb", "mem_used_gb", "format_memory"}
                       \cup (IF compact THEN {} ELSE {"mem_clr"})
                       \cup (IF ~compact /\ sc.displayFormat = "detailed"
                               THEN {"mem_percent"} ELSE {})
                  ELSE {})
          \cup (IF sc.showLoad
                  THEN {"load_1min", "load_5min", "format_load_with_trend"}
                       \cup (IF compact THEN {} ELSE {"load_clr"})
                       \cup (IF ~compact /\ sc.displayFormat = "detailed"
                               THEN {"get_cpu_cores", "load_15min"} ELSE {})
                  ELSE {})
    IN optimizeBashCode(<<
         Blk("display", "display_system", parts,
             {"format_memory", "format_cpu_with_status",
              "format_load_with_trend", "get_cpu_cores"},
             {}, refs,
             {IF emojis THEN "emoji" ELSE "label", sc.displayFormat}
             \cup (IF compact /\ (sc.showRAM \/ sc.showLoad)
                     THEN {"fixed_emoji"} ELSE {}),
             <<CpuThresholdOf(sc), MemThresholdOf(sc), LoadThresholdOf(sc)>>) >>)

generateSystemUtilities ==
  optimizeBashCode(<<
    Blk("utilities", "utilities_system", <<>>,
        {"has_bc", "load_compare"} \cup CacheInitDefs, {}, CacheInitRefs,
        {}, <<>>) >>)

-----------------------------------------------------------------------------
(* generators/bash-generator.ts *)

Has(c, f) == f \in Range(c.features)

HasUsage(c) ==
  Has(c, "usage") \/ Has(c, "session") \/ Has(c, "tokens") \/ Has(c, "burnrate")

HasSystem(c) == Has(c, "cpu") \/ Has(c, "memory") \/ Has(c, "load")

UsageConfig(c) ==
  [enabled |-> HasUsage(c) /\ c.ccusageIntegration,
   showCost |-> Has(c, "usage"),
   showTokens |-> Has(c, "tokens"),
   showBurnRate |-> Has(c, "burnrate"),
   showSession |-> Has(c, "session"),
   showProgressBar |-> c.theme # "minimal" /\ Has(c, "session")]

GitConfig(c) ==
  [enabled |-> Has(c, "git"), showBranch |-> Has(c, "git"),
   showChanges |-> FALSE, compactMode |-> c.theme = "compact"]

SystemConfig(c) ==
  [enabled |-> HasSystem(c),
   showCPU |-> Has(c, "cpu"),
   showRAM |-> Has(c, "memory"),
   showLoad |-> Has(c, "load"),
   refreshRate |-> IF c.systemMonitoring.present
                     THEN OrDefault(c.systemMonitoring.refreshRate, 3) ELSE 3,
   displayFormat |-> IF c.theme = "compact" THEN "compact" ELSE "detailed",
   hasThresholds |-> c.systemMonitoring.present,
   cpuThreshold |-> c.systemMonitoring.cpuThreshold,
   memoryThreshold |-> c.systemMonitoring.memoryThreshold,
   loadThreshold |-> c.systemMonitoring.loadThreshold]

\* The header line carries the creation time, the theme, the colors flag and
\* the feature list as it stands in the configuration object
generateScriptHeader(c, t) ==
  <<Blk("header", "header", c.features, {}, {}, {},
        {c.theme, IF c.colors THEN "colors:true" ELSE "colors:false"}, <<t>>)>>

\* Reads $input
generateLoggingCode ==
  <<Blk("logging", "logging", <<>>, {"LOG_FILE", "TIMESTAMP"}, {}, {"input"},
        {}, <<>>)>>

StdinRead == <<Blk("stdin", "stdin", <<>>, {"input"}, {}, {}, {}, <<>>)>>

generateBasicDataExtraction(hasDirectory, hasModel) ==
  IF ~hasDirectory /\ ~hasModel THEN <<>>
  ELSE
    LET names == (IF hasDirectory THEN {"cwd"} ELSE {})
                 \cup (IF hasModel THEN {"model_name", "model_version"} ELSE {})
    IN optimizeBashCode(<<
         Blk("data", "data_basics", <<>>, names, names, {"input"},
             {"single_jq"}, <<>>) >>)

\* Every extracted value is read as ${name:-}, which needs no earlier assignment
generateLoggingOutput ==
  optimizeBashCode(<<
    Blk("logging_output", "logging_output", <<>>, {}, {},
        {"TIMESTAMP", "LOG_FILE"}, {}, <<>>) >>)

featurePriority ==
  <<"directory", "git", "model", "cpu", "memory", "load", "usage", "session",
    "tokens", "burnrate">>

RenderHeader == <<Blk("display", "render", <<>>, {}, {}, {}, {}, <<>>)>>

\* The body of the switch for one feature of featurePriority.
\* generateUsageDisplayCode is called with two arguments, (usageConfig, emojis):
\* its third parameter, emojis, is undefined there.
DisplayCase(feature, c, gc, uc, sc) ==
  LET emojis == c.colors /\ ~c.customEmojis
      clr(name) == IF c.colors THEN {name, "rst"} ELSE {}
      glyph == {IF emojis THEN "emoji" ELSE "label"}
  IN CASE feature = "directory" ->
            <<Blk("display", "display_directory", <<"directory">>, {}, {},
                  {"cwd"} \cup clr("dir_clr"), glyph, <<>>)>>
       [] feature = "model" ->
            <<Blk("display", "display_model", <<"model">>, {}, {},
                  {"model_name"} \cup clr("model_clr"), glyph, <<>>)>>
       [] feature = "git" -> generateGitDisplayCode(gc, c.colors, emojis)
       [] feature \in {"cpu", "memory", "load"} ->
            IF \/ feature = "cpu"
               \/ ~Has(c, "cpu") /\ feature = "memory"
               \/ ~Has(c, "cpu") /\ ~Has(c, "memory") /\ feature = "load"
              THEN generateSystemDisplayCode(sc, emojis)
              ELSE <<>>
       [] feature \in {"usage", "session", "tokens", "burnrate"} ->
            IF feature = "usage" \/ (~Has(c, "usage") /\ feature = "session")
              THEN generateUsageDisplayCode(uc, emojis, FALSE)
              ELSE <<>>

generateDisplaySection(c, gc, uc, sc) ==
  optimizeBashCode(
    RenderHeader
    \o Join([i \in 1..Len(featurePriority) |->
               IF Has(c, featurePriority[i])
                 THEN DisplayCase(featurePriority[i], c, gc, uc, sc)
                 ELSE <<>>]))

\* generateFeatureHash(config.features, {colors, theme, ccusageIntegration,
\* customEmojis, logging})
generateFeatureHash(c) ==
  c.features \o <<"|", BoolStr(c.colors), c.theme,
                  BoolStr(c.ccusageIntegration), BoolStr(c.customEmojis),
                  BoolStr(c.logging)>>

\* Lines 42-105 of generateBashStatusline: the assembled and optimized script
\* and the memory cache after the fragment generators ran
AssembleScript(c, mc, cap, t) ==
  LET gc == GitConfig(c)
      uc == UsageConfig(c)
      sc == SystemConfig(c)
      git == IF Has(c, "git") THEN generateGitBashCode(gc, c.colors, mc, cap, t)
             ELSE [code |-> <<>>, mc |-> mc, hit |-> FALSE]
      usage == IF HasUsage(c)
                 THEN generateUsageBashCode(uc, c.colors, git.mc, cap, t)
                 ELSE [code |-> <<>>, mc |-> git.mc, hit |-> FALSE]
      system == IF HasSystem(c)
                  THEN generateSystemBashCode(sc, c.colors, usage.mc, cap, t)
                  ELSE [code |-> <<>>, mc |-> usage.mc, hit |-> FALSE]
      parts == <<
        generateScriptHeader(c, t),
        IF c.logging THEN generateLoggingCode ELSE <<>>,
        StdinRead,
        generateColorBashCode(c.colors),
        IF c.colors THEN generateBasicColors ELSE <<>>,
        IF HasUsage(c) THEN generateUsageUtilities ELSE <<>>,
        IF Has(c, "git") THEN generateGitUtilities ELSE <<>>,
        IF HasSystem(c) THEN generateSystemUtilities ELSE <<>>,
        generateBasicDataExtraction(Has(c, "directory"), Has(c, "model")),
        git.code,
        usage.code,
        system.code,
        IF c.logging THEN generateLoggingOutput ELSE <<>>,
        generateDisplaySection(c, gc, uc, sc) >>
  IN [script |-> optimizeBashCode(Join(parts)), mc |-> system.mc,
      hits |-> (IF git.hit THEN {"git"} ELSE {})
               \cup (IF usage.hit THEN {"ccusage"} ELSE {})
               \cup (IF system.hit THEN {"system"} ELSE {})]

-----------------------------------------------------------------------------
(* generators/template-cache.ts *)

COMMON_CONFIGS ==
  << <<"directory", "model">>,
     <<"directory", "git", "model">>,
     <<"directory", "git", "model", "usage">>,
     <<"directory", "git", "model", "usage", "session">> >>

\* The digest input of generateTemplateKey, computed on the sorted feature list
generateTemplateKey(c) ==
  JsSort(c.features) \o <<"|", BoolStr(c.colors), c.theme,
                          BoolStr(c.ccusageIntegration),
                          BoolStr(c.customEmojis), BoolStr(c.logging)>>

\* The matching entry of COMMON_CONFIGS, or <<>> for null
isCommonConfig(features) ==
  LET hits == {i \in 1..Len(COMMON_CONFIGS) :
                 JsSort(features) = JsSort(COMMON_CONFIGS[i])}
  IN IF hits = {} THEN <<>>
     ELSE COMMON_CONFIGS[CHOOSE i \in hits : \A j \in hits : i <= j]

TemplateColors(enabled) ==
  <<Blk("colors", IF enabled THEN "colors_enabled" ELSE "colors_disabled",
        <<>>, {"use_color", "C", "RST"}, {}, {}, {}, <<>>)>>

\* The fragment and the fragment cache after the call
getColorFragment(enabled, fc) ==
  LET key == <<"colors", IF enabled THEN "enabled" ELSE "disabled">>
  IN IF MapHas(fc, key) /\ MapGet(fc, key) # <<>>
       THEN [code |-> MapGet(fc, key), fc |-> fc]
       ELSE [code |-> TemplateColors(enabled),
             fc |-> MapSet(fc, key, TemplateColors(enabled))]

getUtilitiesFragment(hasUsage, hasGit, fc) ==
  LET key == <<"utilities", BoolStr(hasUsage), BoolStr(hasGit)>>
      fragment ==
        (IF hasUsage
           THEN <<Blk("utilities", "utilities_usage", <<>>,
                      {"to_epoch", "fmt_time_hm", "progress_bar"}, {}, {}, {},
                      <<>>)>>
           ELSE <<>>)
        \o (IF hasGit
              THEN <<Blk("utilities", "utilities_git", <<>>, {"num_or_zero"},
                         {}, {}, {}, <<>>)>>
              ELSE <<>>)
        \o <<Blk("utilities", "utilities_json", <<>>, {"extract_json"}, {},
                 {}, {}, <<>>)>>
  IN IF MapHas(fc, key) /\ MapGet(fc, key) # <<>>
       THEN [code |-> MapGet(fc, key), fc |-> fc]
       ELSE [code |-> fragment, fc |-> MapSet(fc, key, fragment)]

\* setCachedCombination: at the size limit the oldest entries go first
setCachedCombination(cc, templateKey, template) ==
  LET trimmed == IF Len(cc) >= combinationCacheLimit
                   THEN SubSeq(cc, combinationCacheEvict + 1, Len(cc))
                   ELSE cc
  IN MapSet(trimmed, templateKey, template)

TemplateBasicColors ==
  <<Blk("basic_colors", "basic_colors", <<>>,
        {"dir_color", "model_color", "version_color", "rst"}, {},
        {"use_color"}, {}, <<>>)>>

TemplateBasicDataExtraction(hasDirectory, hasModel) ==
  IF ~hasDirectory /\ ~hasModel THEN <<>>
  ELSE
    LET names == (IF hasDirectory THEN {"current_dir"} ELSE {})
                 \cup (IF hasModel THEN {"model_name", "model_version"} ELSE {})
    IN <<Blk("data", "data_basics", <<>>, names, names, {"input"},
             {"single_jq"}, <<>>)>>

\* The simplified git code: no process cache, no repository-detection cache
generateGitCode ==
  <<Blk("data", "data_git", <<>>, {"git_branch"}, {}, {}, {"invokes_git"},
        <<>>)>>

\* The simplified usage code: no disk cache, a timeout on the npx call only
generateUsageCode ==
  <<Blk("data", "data_usage", <<>>,
        {"session_txt", "session_pct", "cost_usd", "cost_per_hour", "tpm",
         "tot_tokens", "blocks_output"},
        {"cost_usd", "cost_per_hour", "tot_tokens", "tpm"}, {},
        {"invokes_ccusage", "timeout_npx"}, <<>>)>>

TemplateLoggingOutput ==
  <<Blk("logging_output", "logging_output", <<>>, {}, {},
        {"TIMESTAMP", "LOG_FILE"}, {}, <<>>)>>

\* Directory, model, git, cost: each behind its own features.has test
TemplateDisplaySection(c) ==
  LET emojis == c.colors /\ ~c.customEmojis
      clr(name) == IF c.colors THEN {name, "rst"} ELSE {}
      glyph == {IF emojis THEN "emoji" ELSE "label"}
  IN RenderHeader
     \o (IF Has(c, "directory")
           THEN <<Blk("display", "display_directory", <<"directory">>, {}, {},
                      {"current_dir"} \cup clr("dir_color"), glyph, <<>>)>>
           ELSE <<>>)
     \o (IF Has(c, "model")
           THEN <<Blk("display", "display_model", <<"model">>, {}, {},
                      {"model_name"} \cup clr("model_color"), glyph, <<>>)>>
           ELSE <<>>)
     \o (IF Has(c, "git")
           THEN <<Blk("display", "display_git", <<"git">>, {}, {},
                      {"git_branch"} \cup clr("git_color"), glyph, <<>>)>>
           ELSE <<>>)
     \o (IF Has(c, "usage")
           THEN <<Blk("display", "display_usage", <<"usage">>, {}, {},
                      {"cost_usd", "cost_per_hour", "cost_color", "rst"},
                      glyph, <<>>)>>
           ELSE <<>>)

\* The template and the fragment cache after the call
generateCommonConfigTemplate(c, commonConfig, fc, t) ==
  LET hasGit == Has(c, "git")
      colors == getColorFragment(c.colors, fc)
      utilities == getUtilitiesFragment(HasUsage(c), hasGit, colors.fc)
      basics == TemplateBasicDataExtraction(TRUE, TRUE)
      data ==
        CASE commonConfig = COMMON_CONFIGS[1] -> basics
          [] commonConfig = COMMON_CONFIGS[2] -> basics \o generateGitCode
          [] commonConfig = COMMON_CONFIGS[3] ->
               basics \o generateGitCode \o generateUsageCode
          [] commonConfig = COMMON_CONFIGS[4] ->
               basics \o generateGitCode \o generateUsageCode
      parts == <<
        generateScriptHeader(c, t),
        IF c.logging THEN generateLoggingCode ELSE <<>>,
        StdinRead,
        colors.code,
        IF c.colors THEN TemplateBasicColors ELSE <<>>,
        utilities.code,
        data,
        IF c.logging THEN TemplateLoggingOutput ELSE <<>>,
        TemplateDisplaySection(c) >>
  IN [script |-> Join(parts), fc |-> utilities.fc]

\* generateCustomTemplate returns null, so for a configuration that is not
\* common the result is the empty string
generateOptimizedBashStatusline(c, cc, fc, t) ==
  LET sorted == [c EXCEPT !.features = JsSort(@)]
      templateKey == generateTemplateKey(c)
      commonConfig == isCommonConfig(sorted.features)
      template == generateCommonConfigTemplate(sorted, commonConfig, fc, t)
  IN IF MapHas(cc, templateKey) /\ MapGet(cc, templateKey) # <<>>
       THEN [script |-> MapGet(cc, templateKey), config |-> sorted,
             cc |-> cc, fc |-> fc, path |-> "combination_hit"]
     ELSE IF commonConfig # <<>>
       THEN [script |-> template.script, config |-> sorted,
             cc |-> setCachedCombination(cc, templateKey, template.script),
             fc |-> template.fc, path |-> "common"]
     ELSE [script |-> <<>>, config |-> sorted, cc |-> cc, fc |-> fc,
           path |-> "custom"]

-----------------------------------------------------------------------------
(* State machine *)

NoConfig == Config(<<>>, FALSE, "detailed", FALSE, FALSE, FALSE, NoSM)

NoCall == [input |-> NoConfig, path |-> "none", live |-> FALSE,
           stored |-> <<>>, assembled |-> FALSE, servedFor |-> NoConfig,
           at |-> 0, fragmentHits |-> {}]

\* ---- the generated script at run time ----

MaxProcs == 2
MaxRuns == 2
MaxElapsed == 3
StartClock == 1000

usageCacheTTL == 30
repoCacheTTL == 300
defaultRefreshRate == 3
commandTimeout == 10
npxTimeout == 3
sysCacheLines == 7

Procs == 1..MaxProcs

\* The caches the script keeps in files: the output of the usage tool, whether
\* the directory is a git repository, and the system metrics
Domains == {"usage", "repo", "system"}

\* The common configurations get the script of template-cache.ts, all others
\* the script put together from the feature fragments
Variants == {"general", "common"}

cacheTTL(d) ==
  CASE d = "usage"  -> usageCacheTTL
    [] d = "repo"   -> repoCacheTTL
    [] d = "system" -> defaultRefreshRate

\* Lines of a complete cache file
TotalLines(d) == IF d = "system" THEN sysCacheLines ELSE 1

\* A file: its modification time, how many of the lines of its content are
\* in it, whether these are what a writer of the script wrote (intact) or
\* something else, the invocation that created it (<<0, 0>>: none of them)
\* and how the content came into it
NoFile == [exists |-> FALSE, mtime |-> 0, lines |-> 0, of |-> 0, intact |-> FALSE,
           owner |-> <<0, 0>>, by |-> "none"]

FileLeft(d, mtime, intact) ==
  [exists |-> TRUE, mtime |-> mtime, lines |-> TotalLines(d), of |-> TotalLines(d),
   intact |-> intact, owner |-> <<0, 0>>, by |-> "outside"]

\* What may lie in ~/.claude when the invocations start: nothing, a file of an
\* earlier invocation (in its last second below the TTL, or just as old as the
\* TTL), or a file with damaged content
FilesLeft(d) ==
  { NoFile,
    FileLeft(d, StartClock - cacheTTL(d) + 1, TRUE),
    FileLeft(d, StartClock - cacheTTL(d), TRUE),
    FileLeft(d, StartClock - cacheTTL(d) + 1, FALSE) }

NonEmpty(f) == f.exists /\ f.lines > 0

Complete(f) == f.exists /\ f.lines > 0 /\ f.lines = f.of

\* validate_cache_integrity "$cache_file" ccusage: the file is there, is not
\* empty and jq parses it
validate_cache_integrity(f) == f.exists /\ f.lines > 0 /\ f.intact /\ f.lines = f.of

\* One invocation: where it is in the cache section of one domain
NoProc == [pc |-> "idle", dom |-> "usage", variant |-> "general",
           hasTimeout |-> TRUE, hasCcusage |-> TRUE, run |-> 0, age |-> 0,
           got |-> NoFile, use |-> "none", fetched |-> FALSE, missing |-> FALSE,
           removed |-> FALSE, tools |-> {}, fd |-> <<0, 0>>, wrote |-> 0,
           wtime |-> 0, inRepo |-> TRUE, cmds |-> {}]

\* First step of the cold path
Cold(d) == IF d = "usage" THEN "ccusage" ELSE "collect"

\* ---- the lock protocol of test/test-statusline-with-lock.sh ----

MaxLockers == 2
MaxCrashes == 1

Lockers == 1..MaxLockers

\* /tmp/ccusage_statusline.pid: the process id in it (0: the file is empty)
\* and the invocation that created it
NoPidFile == [exists |-> FALSE, pid |-> 0, owner |-> 0]

\* One invocation of the script; its process id is its number
NoLocker == [pc |-> "idle", old_pid |-> 0, fd |-> 0, acquired |-> FALSE,
             output |-> "none", status |-> "none"]

\* No invocation runs and nothing is left in /tmp
MaxEpoch == 5

\* The session variables before the calculation ran
NoSession == [ran |-> FALSE, barred |-> FALSE, start_sec |-> 0, end_sec |-> 0,
              now_sec |-> 0, total |-> 0, elapsed |-> 0, pct |-> 0, width |-> 0,
              sess_bar |-> <<>>]

\* A shell value: a number, or a string that is not one (the empty string)
Val(n) == [num |-> TRUE, v |-> n]

Blank == [num |-> FALSE, v |-> 0]

\* cpu_percent=0 mem_used_gb=0 mem_total_gb=0 mem_percent=0
\* load_1min=0 load_5min=0 load_15min=0
SysDefaults ==
  [cpu_percent |-> Val(0), mem_used_gb |-> Val(0), mem_total_gb |-> Val(0),
   mem_percent |-> Val(0), load_1min |-> Val(0), load_5min |-> Val(0),
   load_15min |-> Val(0)]

MaxSysRuns == 2

SysRuns == 1..MaxSysRuns

NoSysRun == [pc |-> "idle", vars |-> SysDefaults, sys_cached |-> FALSE,
             fd |-> 0, wrote |-> 0, shown |-> FALSE]

\* No file under the name of the system cache
NoSysFile == [exists |-> FALSE, ino |-> 0, lines |-> <<>>]

\* The place of a line that was never written
Hole == [var |-> "none", val |-> Blank]

\* No machine chosen, no cache file, no run started
NoSystem == [platform |-> "Linux", bc |-> TRUE, gawk |-> TRUE,
             cpu |-> <<0, 0>>, mem |-> <<0, 0>>, load |-> <<0, 0, 0>>,
             file |-> NoSysFile,
             run |-> [p \in SysRuns |-> NoSysRun]]

\* settings.json: absent, not parseable, or an object with its statusLine
\* and its other keys
NoSettings == [state |-> "absent", other |-> "none", statusLine |-> "none"]

\* Nothing installed, installStatusline not called
NoInstall == [pc |-> "idle", script |-> "none", settings |-> NoSettings,
              before |-> [script |-> "none", settings |-> NoSettings],
              shouldWrite |-> TRUE, obj |-> NoSettings,
              overwrite |-> "none", replace |-> "none",
              settingsFailed |-> FALSE, error |-> <<>>, report |-> "none"]

\* The color setup before its first line ran
NoColor == [pc |-> "idle", variant |-> "general", NO_COLOR |-> "",
            FORCE_COLOR |-> "", TERM |-> "", tty |-> FALSE, use_color |-> 0]

InitLockFiles ==
  /\ lockDir = FALSE
  /\ pidFile = NoPidFile
  /\ locker = [p \in Lockers |-> NoLocker]

NoOpt == [input |-> <<>>, pieces |-> 0, called |-> FALSE, fault |-> "none",
          output |-> <<>>, optimized |-> <<>>, issues |-> {},
          caught |-> FALSE, thrown |-> FALSE]

NoGet == [op |-> "none", key |-> <<>>, present |-> FALSE, expiry |-> 0,
          hits |-> 0, stored |-> <<>>, at |-> 0, hit |-> FALSE,
          value |-> <<>>, sizeBefore |-> 0, before |-> <<>>]

InitGenerator ==
  /\ now = 0
  /\ memoryCache = <<>>
  /\ combinationCache = <<>>
  /\ fragmentCache = <<>>
  /\ metrics = [scriptSize |-> 0, generationTime |-> 0, featureComplexity |-> 0]
  /\ out = <<>>
  /\ last = NoCall
  /\ prev = [input |-> NoConfig, out |-> <<>>]
  /\ calls = 0
  /\ getRes = NoGet
  /\ origin = <<>>
  /\ opt = NoOpt

InitCommon ==
  /\ InitGenerator
  /\ clock = StartClock
  /\ disk = [d \in Domains |-> NoFile]
  /\ proc = [p \in Procs |-> NoProc]
  /\ InitLockFiles
  /\ sess = NoSession
  /\ color = NoColor
  /\ sys = NoSystem
  /\ inst = NoInstall

\* The whole-script entry a call with configuration c would be served from
WholeScriptKey(c) ==
  generateCacheKey("template", generateFeatureHash([c EXCEPT !.features = JsSort(@)]))

LiveCombination(c) == MapHas(combinationCache, generateTemplateKey(c))

LiveMemory(c) ==
  /\ MapHas(memoryCache, WholeScriptKey(c))
  /\ now <= MapGet(memoryCache, WholeScriptKey(c)).expiry

\* generateBashStatusline(config)
GenerateBashStatusline(c) ==
  LET o == generateOptimizedBashStatusline(c, combinationCache, fragmentCache, now)
      sorted == o.config
      templateHash == generateFeatureHash(sorted)
      templateCacheKey == generateCacheKey("template", templateHash)
      mem == getFromMemory(memoryCache, templateCacheKey, now)
      asm == AssembleScript(sorted, mem.mc, maxMemoryEntries, now)
      path == IF o.script # <<>> THEN o.path
              ELSE IF mem.hit /\ mem.value # <<>> THEN "memory_hit"
              ELSE "general"
      size(script) == [scriptSize |-> Len(script), generationTime |-> 0,
                       featureComplexity |-> Len(sorted.features)]
      usedKey == IF o.script # <<>> THEN generateTemplateKey(c)
                 ELSE templateCacheKey
  IN /\ calls < MaxCalls
     /\ cfg' = sorted
     /\ CASE path \in {"combination_hit", "common"} ->
               /\ out' = o.script
               /\ combinationCache' = o.cc
               /\ fragmentCache' = o.fc
               /\ metrics' = size(o.script)
               /\ UNCHANGED memoryCache
          [] path = "memory_hit" ->
               /\ out' = mem.value
               /\ memoryCache' = mem.mc
               /\ UNCHANGED <<combinationCache, fragmentCache, metrics>>
          [] path = "general" ->
               /\ out' = asm.script
               /\ memoryCache' = setInMemory(asm.mc, maxMemoryEntries,
                                             templateCacheKey, asm.script,
                                             "template", templateHash, now)
               /\ metrics' = size(asm.script)
               /\ UNCHANGED <<combinationCache, fragmentCache>>
     /\ origin' = IF path \in {"common", "general"}
                    THEN MapSet(origin, usedKey, c) ELSE origin
     /\ last' = [input |-> c,
                 path |-> path,
                 live |-> LiveCombination(c) \/ LiveMemory(c),
                 stored |-> IF LiveCombination(c)
                              THEN MapGet(combinationCache, generateTemplateKey(c))
                            ELSE IF LiveMemory(c)
                              THEN MapGet(memoryCache, WholeScriptKey(c)).value
                            ELSE <<>>,
                 assembled |-> path \in {"common", "general"},
                 servedFor |-> IF path \in {"common", "general"} THEN c
                               ELSE MapGet(origin, usedKey),
                 at |-> now,
                 fragmentHits |-> IF path = "general" THEN asm.hits ELSE {}]
     /\ prev' = [input |-> last.input, out |-> out]
     /\ calls' = calls + 1
     /\ UNCHANGED <<now, maxMemoryEntries, getRes, opt, clock, disk, proc,
          lockDir, pidFile, locker, sess,
          color, sys, inst>>

\* Time passes between calls
Tick ==
  /\ now < MaxTicks * TickStep
  /\ now' = now + TickStep
  /\ UNCHANGED <<memoryCache, maxMemoryEntries, combinationCache,
                 fragmentCache, metrics, cfg, out, last, prev, calls, getRes,
                 origin, opt, clock, disk, proc,
          lockDir, pidFile, locker, sess,
          color, sys, inst>>

-----------------------------------------------------------------------------
(* The generator over time: a few configurations, called again and again *)

DefaultSM == SM(3, 75, 80, 20)

Minimal(fs, colors) == Config(fs, colors, "detailed", TRUE, FALSE, FALSE, NoSM)

CachePool ==
  { Minimal(<<"directory", "model">>, TRUE),
    Minimal(<<"model", "directory">>, TRUE),
    Minimal(<<"directory", "model">>, FALSE),
    Minimal(<<"git", "tokens">>, TRUE),
    Minimal(<<"tokens", "git">>, TRUE),
    Config(<<"cpu">>, TRUE, "detailed", TRUE, FALSE, FALSE, DefaultSM),
    Config(<<"cpu">>, TRUE, "detailed", TRUE, FALSE, FALSE, SM(3, 90, 80, 20)) }

Init ==
  /\ InitCommon
  /\ maxMemoryEntries = defaultMaxMemoryEntries
  /\ cfg = NoConfig

Generate == \E c \in CachePool : GenerateBashStatusline(c)

Next == Generate \/ Tick

Spec == Init /\ [][Next]_vars

-----------------------------------------------------------------------------
(* The assembler as a function: every feature set and every style flag,    *)
(* one call on a cold cache                                                *)

\* The elements of fs in the order of the prompt's choices
RECURSIVE InPromptOrder(_, _)
InPromptOrder(fs, i) ==
  IF i > Len(PromptOrder) THEN <<>>
  ELSE (IF PromptOrder[i] \in fs THEN <<PromptOrder[i]>> ELSE <<>>)
       \o InPromptOrder(fs, i + 1)

AllConfigs ==
  { Config(InPromptOrder(fs, 1), colors, theme, ccusage, logging, emojis,
           IF fs \cap {"cpu", "memory", "load"} # {} THEN DefaultSM ELSE NoSM) :
      fs \in (SUBSET Features) \ {{}}, colors \in BOOLEAN, theme \in Themes,
      ccusage \in BOOLEAN, logging \in BOOLEAN, emojis \in BOOLEAN }

InitAsm ==
  /\ InitCommon
  /\ maxMemoryEntries = defaultMaxMemoryEntries
  /\ cfg \in AllConfigs

GenerateOnce == calls = 0 /\ GenerateBashStatusline(cfg)

NextAsm == GenerateOnce

SpecAsm == InitAsm /\ [][NextAsm]_vars

\* A configuration whose feature list is empty, under every style flag.
\* generateBashStatusline takes it as it takes any other configuration:
\* validateConfig is called by the commands, not by the generator
EmptyConfigs ==
  { Config(<<>>, colors, theme, ccusage, logging, emojis, sm) :
      colors \in BOOLEAN, theme \in Themes, ccusage \in BOOLEAN,
      logging \in BOOLEAN, emojis \in BOOLEAN, sm \in {NoSM, DefaultSM} }

InitEmpty ==
  /\ InitCommon
  /\ maxMemoryEntries = defaultMaxMemoryEntries
  /\ cfg \in EmptyConfigs

GenerateEmpty == calls = 0 /\ cfg.features = <<>> /\ GenerateBashStatusline(cfg)

NextEmpty == GenerateEmpty

SpecEmpty == InitEmpty /\ [][NextEmpty]_vars

-----------------------------------------------------------------------------
(* The cache manager on its own: a manager constructed with a small        *)
(* capacity, read and written directly                                     *)

CacheTypes == {"git", "template_combination", "template_fragment"}

CacheKeys == {generateCacheKey(type, <<"ctx">>) : type \in CacheTypes}

CacheValues == {<<"v1">>, <<"v2">>}

InitCache ==
  /\ InitCommon
  /\ maxMemoryEntries \in 1..MaxCap
  /\ cfg = NoConfig

CallGet(key) ==
  LET r == getFromMemory(memoryCache, key, now)
      present == MapHas(memoryCache, key)
  IN /\ calls < MaxOps
     /\ memoryCache' = r.mc
     /\ getRes' = [op |-> "get", key |-> key, present |-> present,
                   expiry |-> IF present THEN MapGet(memoryCache, key).expiry ELSE 0,
                   hits |-> IF present THEN MapGet(memoryCache, key).hits ELSE 0,
                   stored |-> IF present THEN MapGet(memoryCache, key).value ELSE <<>>,
                   at |-> now, hit |-> r.hit, value |-> r.value,
                   sizeBefore |-> Len(memoryCache), before |-> memoryCache]
     /\ calls' = calls + 1
     /\ UNCHANGED <<now, maxMemoryEntries, combinationCache, fragmentCache,
                    metrics, cfg, out, last, prev, origin, opt, clock, disk, proc,
          lockDir, pidFile, locker, sess,
          color, sys, inst>>

CallSet(key, value) ==
  /\ calls < MaxOps
  /\ memoryCache' = setInMemory(memoryCache, maxMemoryEntries, key, value,
                                key[1], <<"ctx">>, now)
  /\ getRes' = [op |-> "set", key |-> key, present |-> MapHas(memoryCache, key),
                expiry |-> 0, hits |-> 0, stored |-> <<>>, at |-> now,
                hit |-> FALSE, value |-> value,
                sizeBefore |-> Len(memoryCache), before |-> memoryCache]
  /\ calls' = calls + 1
  /\ UNCHANGED <<now, maxMemoryEntries, combinationCache, fragmentCache,
                 metrics, cfg, out, last, prev, origin, opt, clock, disk, proc,
          lockDir, pidFile, locker, sess,
          color, sys, inst>>

\* Time passes: a little, or, once, one of the longer lifetimes at a stroke
TickCache ==
  \E d \in {TickStep, templateCombinationTTL, templateFragmentTTL} :
    /\ IF d = TickStep THEN now < MaxTicks * TickStep
                       ELSE now <= MaxTicks * TickStep
    /\ now' = now + d
    /\ UNCHANGED <<memoryCache, maxMemoryEntries, combinationCache,
                   fragmentCache, metrics, cfg, out, last, prev, calls, getRes,
                   origin, opt, clock, disk, proc,
          lockDir, pidFile, locker, sess,
          color, sys, inst>>

NextCache ==
  \/ \E key \in CacheKeys : CallGet(key)
  \/ \E key \in CacheKeys, value \in CacheValues : CallSet(key, value)
  \/ TickCache

SpecCache == InitCache /\ [][NextCache]_vars

-----------------------------------------------------------------------------
(* The optimizer on its own: texts put together from a few pieces, and an   *)
(* exception thrown in one of the steps or in none                          *)

MaxSnippets == 2

\* Pieces of shell text: lines of the generated fragments, and lines that
\* the patterns of the rewrite passes match
OptSnippets ==
  { <<Assign("cached_result"), Lit("$(cat \"$cache_file\" "), DevNull, Lit(")")>>,
    <<Assign("fresh_result"), Lit("$("), Timeout("10s"), Lit(" ccusage blocks --json "),
      DevNull, Lit(")")>>,
    <<Assign("vmstat_output"), Lit("$("), Timeout("3s"), Lit(" vmstat 1 2 "),
      DevNull, Lit(" | tail -1)")>>,
    <<Assign("cpu_percent"), Lit("$("), Fn("apply_cpu_bounds"),
      Lit("\"$cpu_percent\")")>>,
    <<Assign("now"), Epoch(0)>>,
    <<Lit("echo \"dir="), Ref("current_dir", 2), Lit(" cost="),
      Ref("cost_per_hour", 2), Lit(" tokens="), Ref("total_tokens", 2),
      Lit("\"")>>,
    <<IfSubst(<<Timeout("3s"), Lit(" git rev-parse --git-dir")>>)>>,
    <<Assign("blocks"),  Lit("$("),
      PipeHead(<<Lit("("), Timeout("3s"), Lit(" ccusage blocks --json)")>>,
               ".blocks", 0),
      Lit(" -1)")>> }

OptFaults == {"none"} \cup Range(OptimizationSteps)

\* The caller puts one more piece at the end of the text it will hand over
AppendSnippet(piece) ==
  /\ opt.pieces < MaxSnippets
  /\ opt' = [NoOpt EXCEPT !.input = opt.input \o piece, !.pieces = opt.pieces + 1]
  /\ UNCHANGED <<now, memoryCache, maxMemoryEntries, combinationCache,
                 fragmentCache, metrics, cfg, out, last, prev, calls,
                 getRes, origin, clock, disk, proc,
          lockDir, pidFile, locker, sess,
          color, sys, inst>>

\* optimizeBashCode(text), an exception thrown in the step fault names
CallOptimize(fault) ==
  LET r == optimizeBashCodeText(opt.input, fault)
  IN /\ opt.pieces > 0
     /\ opt' = [input |-> opt.input, pieces |-> opt.pieces, called |-> TRUE,
                fault |-> fault, output |-> r.output,
                optimized |-> r.optimized, issues |-> r.issues,
                caught |-> r.caught, thrown |-> r.thrown]
     /\ UNCHANGED <<now, memoryCache, maxMemoryEntries, combinationCache,
                    fragmentCache, metrics, cfg, out, last, prev, calls,
                    getRes, origin, clock, disk, proc,
          lockDir, pidFile, locker, sess,
          color, sys, inst>>

NextOptimizer ==
  \/ \E piece \in OptSnippets : AppendSnippet(piece)
  \/ \E fault \in OptFaults : CallOptimize(fault)

SpecOptimizer == Init /\ [][NextOptimizer]_vars

-----------------------------------------------------------------------------
(* Invocations of the generated script that run at the same time, a system  *)
(* call at a time. The cache sections of the three domains share no file    *)
(* and no variable that the others read, so the runs of each section are    *)
(* looked at on their own: InitRun picks the section, the variant of the    *)
(* script that is installed, and what the machine has installed.            *)

generatorVars == <<now, memoryCache, maxMemoryEntries, combinationCache,
                   fragmentCache, metrics, cfg, out, last, prev, calls, getRes,
                   origin, opt, sess, color, sys,
                   inst>>

runVars == <<clock, disk, proc>>

lockVars == <<lockDir, pidFile, locker>>

Step(p, r) == proc' = [proc EXCEPT ![p] = r]

\* The status line is asked for: the installed script starts once more, on
\* the same machine
StartScript(p) ==
  LET s == proc[p]
  IN /\ s.pc \in {"idle", "done"}
     /\ s.run < MaxRuns
     /\ Step(p, [NoProc EXCEPT !.pc = IF s.variant = "common" THEN Cold(s.dom)
                                      ELSE IF s.dom = "repo" THEN "branch"
                                      ELSE "exists",
                               !.dom = s.dom, !.variant = s.variant,
                               !.inRepo = s.inRepo,
                               !.hasTimeout = s.hasTimeout,
                               !.hasCcusage = s.hasCcusage,
                               !.run = s.run + 1,
                               !.fetched = (s.variant = "common")])
     /\ UNCHANGED <<clock, disk>>
     /\ UNCHANGED <<generatorVars, lockVars>>

\* The git commands one run of "git symbolic-ref --short HEAD 2>/dev/null ||
\* git describe --always 2>/dev/null" starts: outside a repository the first
\* fails and the second is tried
BranchCommands(inRepo) ==
  IF inRepo THEN {"symbolic-ref"} ELSE {"symbolic-ref", "describe"}

\* git_branch="" and then the process cache for git_branch, the first
\* commands of the git block: [ -z "$git_branch" ] holds, the computation runs
ProcessCacheBranch(p) ==
  LET s == proc[p]
  IN /\ s.pc = "branch"
     /\ Step(p, [s EXCEPT !.pc = "exists", !.cmds = @ \cup BranchCommands(s.inRepo)])
     /\ UNCHANGED <<clock, disk>>
     /\ UNCHANGED <<generatorVars, lockVars>>

\* if [[ -f "$cache_file" ]]
TestExists(p) ==
  LET s == proc[p]
  IN /\ s.pc = "exists"
     /\ Step(p, IF disk[s.dom].exists
                  THEN [s EXCEPT !.pc = "age"]
                  ELSE [s EXCEPT !.pc = Cold(s.dom), !.missing = TRUE,
                                 !.fetched = TRUE])
     /\ UNCHANGED <<clock, disk>>
     /\ UNCHANGED <<generatorVars, lockVars>>

\* cache_age=$((now - $(stat -c %Y "$cache_file" || echo 0))), compared
\* with the TTL
CheckAge(p) ==
  LET s == proc[p]
      mtime == IF disk[s.dom].exists THEN disk[s.dom].mtime ELSE 0
      age == clock - mtime
  IN /\ s.pc = "age"
     /\ Step(p, [s EXCEPT !.age = age,
                          !.pc = IF age < cacheTTL(s.dom)
                                   THEN (IF s.dom = "usage" THEN "validate" ELSE "read")
                                   ELSE "expired"])
     /\ UNCHANGED <<clock, disk>>
     /\ UNCHANGED <<generatorVars, lockVars>>

\* rm -f "$cache_file" of a file found too old
RemoveExpired(p) ==
  LET s == proc[p]
  IN /\ s.pc = "expired"
     /\ disk' = [disk EXCEPT ![s.dom] = NoFile]
     /\ Step(p, [s EXCEPT !.pc = Cold(s.dom), !.removed = TRUE, !.fetched = TRUE])
     /\ UNCHANGED clock
     /\ UNCHANGED <<generatorVars, lockVars>>

\* if validate_cache_integrity "$cache_file" ccusage (usage cache only)
ValidateCache(p) ==
  LET s == proc[p]
  IN /\ s.pc = "validate"
     /\ Step(p, [s EXCEPT !.pc = IF validate_cache_integrity(disk[s.dom])
                                   THEN "read" ELSE "repair",
                          !.missing = ~disk[s.dom].exists])
     /\ UNCHANGED <<clock, disk>>
     /\ UNCHANGED <<generatorVars, lockVars>>

\* repair_cache_file: a copy is put aside and the file removed
RepairCache(p) ==
  LET s == proc[p]
  IN /\ s.pc = "repair"
     /\ disk' = [disk EXCEPT ![s.dom] = NoFile]
     /\ Step(p, [s EXCEPT !.pc = Cold(s.dom), !.removed = TRUE, !.fetched = TRUE])
     /\ UNCHANGED clock
     /\ UNCHANGED <<generatorVars, lockVars>>

\* The content is read: cached_result=$(cat "$cache_file" 2>/dev/null) with
\* use_cache=1 set; is_git_repo=$(<"$repo_cache"), looked up afresh when
\* empty; eval "$(<"$sys_cache")" with sys_cached=1 set
ReadCache(p) ==
  LET s == proc[p]
      f == disk[s.dom]
      t == [s EXCEPT !.got = [f EXCEPT !.mtime = 0, !.owner = <<0, 0>>],
                     !.missing = ~f.exists]
  IN /\ s.pc = "read"
     /\ Step(p, IF NonEmpty(f)
                  THEN [t EXCEPT !.pc = "done", !.use = "cache"]
                  ELSE IF s.dom = "repo"
                         THEN [t EXCEPT !.pc = Cold(s.dom), !.fetched = TRUE]
                         ELSE [t EXCEPT !.pc = "done", !.use = "none"])
     /\ UNCHANGED <<clock, disk>>
     /\ UNCHANGED <<generatorVars, lockVars>>

\* The time limit the script puts on the run of "ccusage blocks --json":
\* timeout 10s before the whole command if the fragment script finds the
\* timeout utility, none otherwise (0)
ccusageLimit(s) ==
  IF s.variant = "general" /\ s.hasTimeout THEN commandTimeout ELSE 0

\* Where a fresh result goes: into the cache file, or straight to the display
Fresh(s) ==
  IF s.variant = "general" THEN [s EXCEPT !.pc = "write_tmp"]
  ELSE [s EXCEPT !.pc = "done", !.use = "fresh"]

\* ccusage blocks --json, the first half of the command, is started; where
\* ccusage is not installed the command is not found and the second half is
\* tried
SpawnCcusage(p) ==
  LET s == proc[p]
  IN /\ s.pc = "ccusage"
     /\ Step(p, IF ~s.hasCcusage THEN [s EXCEPT !.pc = "npx"]
                ELSE [s EXCEPT !.pc = "ccusage_running",
                               !.tools = @ \cup {[tool |-> "ccusage",
                                                  limit |-> ccusageLimit(s)]}])
     /\ UNCHANGED <<clock, disk>>
     /\ UNCHANGED <<generatorVars, lockVars>>

\* The started tool answers, fails, or never returns
RunCcusage(p, outcome) ==
  LET s == proc[p]
  IN /\ s.pc = "ccusage_running"
     /\ Step(p, CASE outcome = "ok"   -> Fresh(s)
                  [] outcome = "fail" -> [s EXCEPT !.pc = "npx"]
                  [] outcome = "hang" ->
                       IF ccusageLimit(s) = 0 THEN [s EXCEPT !.pc = "hung"]
                       ELSE [s EXCEPT !.pc = "npx"])
     /\ UNCHANGED <<clock, disk>>
     /\ UNCHANGED <<generatorVars, lockVars>>

\* || timeout 3 npx ccusage@latest blocks --json, the second half, is
\* started: without the timeout utility the command is not found and nothing
\* is run
SpawnNpx(p) ==
  LET s == proc[p]
  IN /\ s.pc = "npx"
     /\ Step(p, IF ~s.hasTimeout THEN [s EXCEPT !.pc = "done", !.use = "none"]
                ELSE [s EXCEPT !.pc = "npx_running",
                               !.tools = @ \cup {[tool |-> "npx",
                                                  limit |-> npxTimeout]}])
     /\ UNCHANGED <<clock, disk>>
     /\ UNCHANGED <<generatorVars, lockVars>>

\* The tool started through npx answers, or fails, or is stopped by timeout
RunNpx(p, outcome) ==
  LET s == proc[p]
  IN /\ s.pc = "npx_running"
     /\ Step(p, IF outcome = "ok" THEN Fresh(s)
                ELSE [s EXCEPT !.pc = "done", !.use = "none"])
     /\ UNCHANGED <<clock, disk>>
     /\ UNCHANGED <<generatorVars, lockVars>>

\* echo "$fresh_result" > "$temp_cache", a file of this invocation alone
WriteTemp(p) ==
  LET s == proc[p]
  IN /\ s.pc = "write_tmp"
     /\ Step(p, [s EXCEPT !.pc = "rename", !.wtime = clock])
     /\ UNCHANGED <<clock, disk>>
     /\ UNCHANGED <<generatorVars, lockVars>>

\* mv "$temp_cache" "$cache_file"
RenameTemp(p) ==
  LET s == proc[p]
  IN /\ s.pc = "rename"
     /\ disk' = [disk EXCEPT ![s.dom] =
                   [exists |-> TRUE, mtime |-> s.wtime, lines |-> 1, of |-> 1,
                    intact |-> TRUE, owner |-> <<p, s.run>>, by |-> "rename"]]
     /\ Step(p, [s EXCEPT !.pc = "done", !.use = "fresh"])
     /\ UNCHANGED clock
     /\ UNCHANGED <<generatorVars, lockVars>>

\* git rev-parse --git-dir, or the collection of the system metrics
Collect(p) ==
  LET s == proc[p]
  IN /\ s.pc = "collect"
     /\ Step(p, [s EXCEPT !.pc = "truncate",
                          !.cmds = IF s.dom = "repo" THEN @ \cup {"rev-parse"} ELSE @])
     /\ UNCHANGED <<clock, disk>>
     /\ UNCHANGED <<generatorVars, lockVars>>

\* > "$repo_cache", > "$sys_cache": the redirection opens the cache file
\* itself, emptied if it is there and created if not
Truncate(p) ==
  LET s == proc[p]
      f == disk[s.dom]
      g == [exists |-> TRUE, mtime |-> clock, lines |-> 0, of |-> TotalLines(s.dom),
            intact |-> TRUE, owner |-> IF f.exists THEN f.owner ELSE <<p, s.run>>,
            by |-> "direct"]
  IN /\ s.pc = "truncate"
     /\ disk' = [disk EXCEPT ![s.dom] = g]
     /\ Step(p, [s EXCEPT !.pc = "write", !.fd = g.owner, !.wrote = 0])
     /\ UNCHANGED clock
     /\ UNCHANGED <<generatorVars, lockVars>>

\* One echo into the open file. A file removed in the meantime is no longer
\* under its name; two invocations that write the same file write the same
\* lines at the same places.
WriteLine(p) ==
  LET s == proc[p]
      f == disk[s.dom]
      n == s.wrote + 1
  IN /\ s.pc = "write"
     /\ disk' = IF f.exists /\ f.owner = s.fd
                  THEN [disk EXCEPT ![s.dom] =
                          [f EXCEPT !.lines = IF n > f.lines THEN n ELSE f.lines,
                                    !.mtime = clock]]
                  ELSE disk
     /\ Step(p, IF n = TotalLines(s.dom)
                  THEN [s EXCEPT !.wrote = n, !.pc = "done", !.use = "fresh"]
                  ELSE [s EXCEPT !.wrote = n])
     /\ UNCHANGED clock
     /\ UNCHANGED <<generatorVars, lockVars>>

\* A second passes
Advance ==
  /\ clock < StartClock + MaxElapsed
  /\ clock' = clock + 1
  /\ UNCHANGED <<disk, proc>>
  /\ UNCHANGED <<generatorVars, lockVars>>

ToolOutcomes == {"ok", "fail", "hang"}

InitRun ==
  /\ InitGenerator
  /\ maxMemoryEntries = defaultMaxMemoryEntries
  /\ cfg = NoConfig
  /\ clock = StartClock
  /\ \E d \in Domains, f \in UNION {FilesLeft(e) : e \in Domains},
        v \in Variants, t \in BOOLEAN, c \in BOOLEAN, r \in BOOLEAN :
       /\ f \in FilesLeft(d)
       /\ d # "usage" => (v = "general" /\ t /\ c)
       /\ d # "repo" => r
       /\ disk = [e \in Domains |-> IF e = d THEN f ELSE NoFile]
       /\ proc = [p \in Procs |-> [NoProc EXCEPT !.dom = d, !.variant = v,
                                                 !.hasTimeout = t,
                                                 !.hasCcusage = c,
                                                 !.inRepo = r]]
  /\ InitLockFiles
  /\ sess = NoSession
  /\ color = NoColor
  /\ sys = NoSystem
  /\ inst = NoInstall

NextRun ==
  \/ \E p \in Procs : StartScript(p)
  \/ \E p \in Procs : ProcessCacheBranch(p)
  \/ \E p \in Procs : TestExists(p)
  \/ \E p \in Procs : CheckAge(p)
  \/ \E p \in Procs : RemoveExpired(p)
  \/ \E p \in Procs : ValidateCache(p)
  \/ \E p \in Procs : RepairCache(p)
  \/ \E p \in Procs : ReadCache(p)
  \/ \E p \in Procs : SpawnCcusage(p)
  \/ \E p \in Procs, o \in ToolOutcomes : RunCcusage(p, o)
  \/ \E p \in Procs : SpawnNpx(p)
  \/ \E p \in Procs, o \in ToolOutcomes : RunNpx(p, o)
  \/ \E p \in Procs : WriteTemp(p)
  \/ \E p \in Procs : RenameTemp(p)
  \/ \E p \in Procs : Collect(p)
  \/ \E p \in Procs : Truncate(p)
  \/ \E p \in Procs : WriteLine(p)
  \/ Advance

SpecRun == InitRun /\ [][NextRun]_vars

-----------------------------------------------------------------------------
(* The lock protocol of test/test-statusline-with-lock.sh, run by several   *)
(* invocations at the same time, a command at a time. The script runs       *)
(* under set -euo pipefail: a command that fails outside a condition ends   *)
(* the script at once with a non-zero status.                               *)

Lock(p, r) == locker' = [locker EXCEPT ![p] = r]

\* kill -0 "$pid": a process that has started and has neither ended nor died
Running(p) == locker[p].pc \notin {"idle", "done", "crashed"}

\* is_process_running "$old_pid"
is_process_running(pid) == pid # 0 /\ Running(pid)

\* errexit: the script ends where it is, with what it has emitted so far
Errexit(s) == [s EXCEPT !.pc = "done", !.status = "errexit"]

\* The host asks for the status line: the script is started
StartLock(p) ==
  /\ locker[p].pc \in {"idle", "done"}
  /\ Lock(p, [NoLocker EXCEPT !.pc = "mkdir"])
  /\ UNCHANGED <<lockDir, pidFile>>
  /\ UNCHANGED <<generatorVars, runVars>>

\* if mkdir "$LOCK_FILE" 2>/dev/null
TryLock(p) ==
  LET s == locker[p]
  IN /\ s.pc = "mkdir"
     /\ lockDir' = TRUE
     /\ Lock(p, IF lockDir THEN [s EXCEPT !.pc = "test_pid"]
                ELSE [s EXCEPT !.pc = "open_pid", !.acquired = TRUE])
     /\ UNCHANGED pidFile
     /\ UNCHANGED <<generatorVars, runVars>>

\* echo $$ > "$LOCK_PID_FILE", the redirection: the file is opened, emptied if
\* it is there and created if not
OpenPidFile(p) ==
  LET s == locker[p]
      f == [exists |-> TRUE, pid |-> 0,
            owner |-> IF pidFile.exists THEN pidFile.owner ELSE p]
  IN /\ s.pc = "open_pid"
     /\ pidFile' = f
     /\ Lock(p, [s EXCEPT !.pc = "write_pid", !.fd = f.owner])
     /\ UNCHANGED lockDir
     /\ UNCHANGED <<generatorVars, runVars>>

\* echo $$ > "$LOCK_PID_FILE", the write into the open file; a file removed
\* in the meantime is no longer under its name
WritePid(p) ==
  LET s == locker[p]
  IN /\ s.pc = "write_pid"
     /\ pidFile' = IF pidFile.exists /\ pidFile.owner = s.fd
                     THEN [pidFile EXCEPT !.pid = p] ELSE pidFile
     /\ Lock(p, [s EXCEPT !.pc = "ccusage"])
     /\ UNCHANGED lockDir
     /\ UNCHANGED <<generatorVars, runVars>>

\* The run of ccusage (sleep 0.5 in the test script) comes to its end and the
\* status line is written
RunLocked(p) ==
  LET s == locker[p]
  IN /\ s.pc = "ccusage"
     /\ Lock(p, [s EXCEPT !.pc = "rm_pid", !.output = "fresh"])
     /\ UNCHANGED <<lockDir, pidFile>>
     /\ UNCHANGED <<generatorVars, runVars>>

\* A faulty holder that leaves its PID file behind
ReleasePidMutantKeepsFile(p) ==
  LET s == locker[p]
  IN /\ s.pc = "rm_pid"
     /\ Lock(p, [s EXCEPT !.pc = "rmdir"])
     /\ UNCHANGED <<lockDir, pidFile>>
     /\ UNCHANGED <<generatorVars, runVars>>

\* rm -f "$LOCK_PID_FILE" of the holder
ReleasePid(p) ==
  LET s == locker[p]
  IN /\ s.pc = "rm_pid"
     /\ pidFile' = NoPidFile
     /\ Lock(p, [s EXCEPT !.pc = "rmdir"])
     /\ UNCHANGED lockDir
     /\ UNCHANGED <<generatorVars, runVars>>

\* rmdir "$LOCK_FILE" of the holder, the last command of the script: its
\* status is the status of the script
ReleaseLock(p) ==
  LET s == locker[p]
  IN /\ s.pc = "rmdir"
     /\ lockDir' = FALSE
     /\ Lock(p, IF lockDir THEN [s EXCEPT !.pc = "done", !.status = "ok"]
                ELSE Errexit(s))
     /\ UNCHANGED pidFile
     /\ UNCHANGED <<generatorVars, runVars>>

\* if [ -f "$LOCK_PID_FILE" ], after a mkdir that failed
TestPidFile(p) ==
  LET s == locker[p]
  IN /\ s.pc = "test_pid"
     /\ Lock(p, [s EXCEPT !.pc = IF pidFile.exists THEN "read_pid" ELSE "emit"])
     /\ UNCHANGED <<lockDir, pidFile>>
     /\ UNCHANGED <<generatorVars, runVars>>

\* old_pid=$(cat "$LOCK_PID_FILE" 2>/dev/null): the assignment fails when cat
\* fails
ReadPid(p) ==
  LET s == locker[p]
  IN /\ s.pc = "read_pid"
     /\ Lock(p, IF pidFile.exists
                  THEN [s EXCEPT !.pc = "check_pid", !.old_pid = pidFile.pid]
                  ELSE Errexit(s))
     /\ UNCHANGED <<lockDir, pidFile>>
     /\ UNCHANGED <<generatorVars, runVars>>

\* if ! is_process_running "$old_pid"
CheckPid(p) ==
  LET s == locker[p]
  IN /\ s.pc = "check_pid"
     /\ Lock(p, [s EXCEPT !.pc = IF is_process_running(s.old_pid) THEN "emit"
                                 ELSE "clean_pid"])
     /\ UNCHANGED <<lockDir, pidFile>>
     /\ UNCHANGED <<generatorVars, runVars>>

\* rm -f "$LOCK_PID_FILE" of the stale-lock cleanup
CleanPid(p) ==
  LET s == locker[p]
  IN /\ s.pc = "clean_pid"
     /\ pidFile' = NoPidFile
     /\ Lock(p, [s EXCEPT !.pc = "clean_dir"])
     /\ UNCHANGED lockDir
     /\ UNCHANGED <<generatorVars, runVars>>

\* rmdir "$LOCK_FILE" of the stale-lock cleanup
CleanLock(p) ==
  LET s == locker[p]
  IN /\ s.pc = "clean_dir"
     /\ lockDir' = FALSE
     /\ Lock(p, IF lockDir THEN [s EXCEPT !.pc = "emit"] ELSE Errexit(s))
     /\ UNCHANGED pidFile
     /\ UNCHANGED <<generatorVars, runVars>>

\* echo "... [cached]", the output of an invocation that skipped
EmitCached(p) ==
  LET s == locker[p]
  IN /\ s.pc = "emit"
     /\ Lock(p, [s EXCEPT !.pc = "done", !.output = "cached", !.status = "ok"])
     /\ UNCHANGED <<lockDir, pidFile>>
     /\ UNCHANGED <<generatorVars, runVars>>

\* The process dies where it is (kill -9, power loss of the terminal)
Crash(p) ==
  /\ Running(p)
  /\ Cardinality({q \in Lockers : locker[q].pc = "crashed"}) < MaxCrashes
  /\ Lock(p, [locker[p] EXCEPT !.pc = "crashed"])
  /\ UNCHANGED <<lockDir, pidFile>>
  /\ UNCHANGED <<generatorVars, runVars>>

InitLock ==
  /\ InitCommon
  /\ maxMemoryEntries = defaultMaxMemoryEntries
  /\ cfg = NoConfig

\* One command of the invocation p
LockStep(p) ==
  \/ StartLock(p)
  \/ TryLock(p)
  \/ OpenPidFile(p)
  \/ WritePid(p)
  \/ RunLocked(p)
  \/ ReleasePid(p)
  \/ ReleaseLock(p)
  \/ TestPidFile(p)
  \/ ReadPid(p)
  \/ CheckPid(p)
  \/ CleanPid(p)
  \/ CleanLock(p)
  \/ EmitCached(p)

NextLock == \E p \in Lockers : LockStep(p)

SpecLock == InitLock /\ [][NextLock]_vars

NextLockCrash == NextLock \/ \E p \in Lockers : Crash(p)

\* The host goes on asking for the status line, and a process that has not
\* died goes on running
SpecLockCrash ==
  InitLock /\ [][NextLockCrash]_vars /\ \A p \in Lockers : WF_vars(LockStep(p))

-----------------------------------------------------------------------------
(* features/colors.ts: the session time calculation of the usage block and *)
(* progress_bar of the time helpers, on the integers bash computes with.   *)
(* Epoch seconds are far below 2^63 / 100, so no product wraps.            *)

\* width is the second argument of progress_bar; the usage block passes 10
Widths == {0, 3, 10}

Epochs == 0..MaxEpoch

\* The calculation without (( elapsed>total ))&&elapsed=$total
SessionMutantNoUpperClamp(start_sec, end_sec, now_sec) ==
  LET total0 == end_sec - start_sec
      total == IF total0 < 1 THEN 1 ELSE total0
      elapsed0 == now_sec - start_sec
      elapsed == IF elapsed0 < 0 THEN 0 ELSE elapsed0
  IN [total |-> total, elapsed |-> elapsed, pct |-> (elapsed * 100) \div total]

\* total=$(( end_sec - start_sec )); (( total<1 )) && total=1
\* elapsed=$(( now_sec - start_sec )); (( elapsed<0 ))&&elapsed=0;
\* (( elapsed>total ))&&elapsed=$total; pct=$(( elapsed * 100 / total ))
SessionTime(start_sec, end_sec, now_sec) ==
  LET total0 == end_sec - start_sec
      total == IF total0 < 1 THEN 1 ELSE total0
      elapsed0 == now_sec - start_sec
      elapsed1 == IF elapsed0 < 0 THEN 0 ELSE elapsed0
      elapsed == IF elapsed1 > total THEN total ELSE elapsed1
  IN [total |-> total, elapsed |-> elapsed, pct |-> (elapsed * 100) \div total]

\* printf '%*s' "$n" '' | tr ' ' c: n copies of c
Cells(n, c) == [i \in 1..n |-> c]

\* progress_bar: p is the first argument and w the second; p is a string of
\* digits here, so the test against ^[0-9]+$ passes
progress_bar(p, w) ==
  LET p1 == IF p < 0 THEN 0 ELSE p
      p2 == IF p1 > 100 THEN 100 ELSE p1
      filled == (p2 * w) \div 100
      empty == w - filled
  IN Cells(filled, "=") \o Cells(empty, "-")

InitSession ==
  /\ InitGenerator
  /\ maxMemoryEntries = defaultMaxMemoryEntries
  /\ cfg = NoConfig
  /\ clock = StartClock
  /\ disk = [d \in Domains |-> NoFile]
  /\ proc = [p \in Procs |-> NoProc]
  /\ InitLockFiles
  /\ \E s \in Epochs, e \in Epochs, n \in Epochs, w \in Widths :
       sess = [NoSession EXCEPT !.start_sec = s, !.end_sec = e,
                                !.now_sec = n, !.width = w]
  /\ color = NoColor
  /\ sys = NoSystem
  /\ inst = NoInstall

\* The session time calculation of the usage block
CalculateSession ==
  LET r == SessionTime(sess.start_sec, sess.end_sec, sess.now_sec)
  IN /\ ~sess.ran
     /\ sess' = [sess EXCEPT !.ran = TRUE, !.total = r.total,
                             !.elapsed = r.elapsed, !.pct = r.pct]
     /\ UNCHANGED <<now, memoryCache, maxMemoryEntries, combinationCache,
          fragmentCache, metrics, cfg, out, last, prev, calls, getRes, origin,
          opt, runVars, lockVars, color, sys, inst>>

\* sess_bar=$(progress_bar "$pct" 10), for each width
DrawProgressBar ==
  /\ sess.ran
  /\ ~sess.barred
  /\ sess' = [sess EXCEPT !.barred = TRUE,
                          !.sess_bar = progress_bar(sess.pct, sess.width)]
  /\ UNCHANGED <<now, memoryCache, maxMemoryEntries, combinationCache,
       fragmentCache, metrics, cfg, out, last, prev, calls, getRes, origin,
       opt, runVars, lockVars, color, sys, inst>>

NextSession == CalculateSession \/ DrawProgressBar

SpecSession == InitSession /\ [][NextSession]_vars

-----------------------------------------------------------------------------
(* The color helpers of a script generated with colors: generateColorBashCode *)
(* (features/colors.ts) on the general path, TEMPLATE_FRAGMENTS.colors.enabled *)
(* (generators/template-cache.ts) on the common path                          *)

ColorVariants == {"general", "common"}

\* Values of NO_COLOR and FORCE_COLOR; "" is unset or empty
NoColorValues == {"", "1"}

ForceColorValues == {"", "1", "0", "true"}

Terms == {"", "xterm-256color", "screen", "dumb", "unknown", "vt100"}

\* *color*|*-256color|xterm*|screen*|tmux*
ColorTerms == {"xterm-256color", "screen"}

\* dumb|unknown
DumbTerms == {"dumb", "unknown"}

\* The value of the name FORCE_COLOR inside (( )): the number it holds, and
\* 0 for an empty value or a word that names no variable
ArithValue(v) == IF v = "1" THEN 1 ELSE 0

ColorStep(r) == color' = r

ColorFrame == UNCHANGED <<now, memoryCache, maxMemoryEntries, combinationCache,
                          fragmentCache, metrics, cfg, out, last, prev, calls,
                          getRes, origin, opt, sess, runVars, lockVars,
                          sys, inst>>

InitColor ==
  /\ InitGenerator
  /\ maxMemoryEntries = defaultMaxMemoryEntries
  /\ cfg = NoConfig
  /\ clock = StartClock
  /\ disk = [d \in Domains |-> NoFile]
  /\ proc = [p \in Procs |-> NoProc]
  /\ InitLockFiles
  /\ sess = NoSession
  /\ \E v \in ColorVariants, n \in NoColorValues, f \in ForceColorValues,
        t \in Terms, y \in BOOLEAN :
       color = [NoColor EXCEPT !.variant = v, !.NO_COLOR = n,
                               !.FORCE_COLOR = f, !.TERM = t, !.tty = y]
  /\ sys = NoSystem
  /\ inst = NoInstall

\* use_color=1
SetUseColor ==
  /\ color.pc = "idle"
  /\ ColorStep([color EXCEPT !.pc = "no_color", !.use_color = 1])
  /\ ColorFrame

\* [[ $NO_COLOR ]] && use_color=0
HonorNoColor ==
  /\ color.pc = "no_color"
  /\ ColorStep([color EXCEPT !.pc = "force_color",
                             !.use_color = IF color.NO_COLOR # "" THEN 0 ELSE @])
  /\ ColorFrame

\* [[ $FORCE_COLOR ]] && use_color=1
HonorForceColor ==
  /\ color.pc = "force_color"
  /\ ColorStep([color EXCEPT !.pc = "detect",
                             !.use_color = IF color.FORCE_COLOR # "" THEN 1 ELSE @])
  /\ ColorFrame

\* The test of the if that guards the terminal detection:
\* (( use_color && ! FORCE_COLOR )) in colors.ts,
\* [ "$use_color" -eq 1 ] && [ -z "$FORCE_COLOR" ] in template-cache.ts
DetectionGuard(c) ==
  IF c.variant = "general"
    THEN c.use_color # 0 /\ ArithValue(c.FORCE_COLOR) = 0
    ELSE c.use_color = 1 /\ c.FORCE_COLOR = ""

\* case "$TERM" in ... esac
DetectTerminal ==
  /\ color.pc = "detect"
  /\ ColorStep([color EXCEPT
       !.pc = "done",
       !.use_color = IF ~DetectionGuard(color) THEN @
                     ELSE IF color.TERM \in ColorTerms THEN 1
                     ELSE IF color.TERM \in DumbTerms THEN 0
                     ELSE IF color.tty THEN @ ELSE 1])
  /\ ColorFrame

NextColor == SetUseColor \/ HonorNoColor \/ HonorForceColor \/ DetectTerminal

SpecColor == InitColor /\ [][NextColor]_vars

-----------------------------------------------------------------------------
(* features/system.ts: the system block of the generated script at run     *)
(* time.  Percentages are whole numbers, memory is in GB, load averages and *)
(* the readings of top are in hundredths.                                   *)

Platforms == {"Linux", "WSL", "Darwin", "Unknown"}

\* user and sys of the "CPU usage" line, in hundredths of a percent
CpuReadings == {<<476, 952>>, <<9550, 449>>}

\* used and total memory in GB
MemReadings == {<<3, 8>>}

\* the three load averages, in hundredths
LoadReadings == {<<52, 40, 30>>, <<250, 180, 120>>}

\* The order of the echo lines that write the cache file
SysCacheOrder == <<"cpu_percent", "mem_used_gb", "mem_total_gb", "mem_percent",
                   "load_1min", "load_5min", "load_15min">>

\* validate_numeric: the value when it is a number within [min, max], the
\* default otherwise.  The three bounds are scaled by bc; without bc they
\* are empty, the comparison fails and the default is printed.
validate_numeric(val, min, max, default, bc) ==
  IF val.num /\ bc /\ val.v >= min /\ val.v <= max THEN val ELSE Val(default)

validate_cpu_percent(val, bc) == validate_numeric(val, 0, 100, 0, bc)

validate_memory_gb(val, bc) == validate_numeric(val, 0, 1024, 0, bc)

validate_memory_percent(val, bc) == validate_numeric(val, 0, 100, 0, bc)

\* 50 is the highest load accepted
validate_load_average(val, bc) == validate_numeric(val, 0, 5000, 0, bc)

apply_cpu_bounds(val, bc) == validate_cpu_percent(val, bc)

\* used is capped to total
apply_memory_bounds(used, total, bc) ==
  LET u == validate_memory_gb(used, bc)
      t == validate_memory_gb(total, bc)
  IN IF t.v # 0 /\ bc /\ u.v > t.v THEN <<t, t>> ELSE <<u, t>>

apply_load_bounds(l, bc) ==
  <<validate_load_average(Val(l[1]), bc), validate_load_average(Val(l[2]), bc),
    validate_load_average(Val(l[3]), bc)>>

\* active * 100 / total of /proc/stat
ProcStatPercent(m) == (m.cpu[1] + m.cpu[2]) \div 100

\* The memory figures awk prints from /proc/meminfo, vm_stat or free
MemFigures(m) ==
  [used |-> m.mem[1], total |-> m.mem[2],
   percent |-> (m.mem[1] * 100) \div m.mem[2]]

\* Linux: every value goes through apply_*_bounds; when the validated total
\* is 0 the figures of awk stay
LinuxValues(m) ==
  LET f == MemFigures(m)
      b == apply_memory_bounds(Val(f.used), Val(f.total), m.bc)
      l == apply_load_bounds(m.load, m.bc)
      ok == b[2].v # 0
  IN [cpu_percent |-> apply_cpu_bounds(Val(ProcStatPercent(m)), m.bc),
      mem_used_gb |-> IF ok THEN b[1] ELSE Val(f.used),
      mem_total_gb |-> IF ok THEN b[2] ELSE Val(f.total),
      mem_percent |-> IF ok THEN validate_memory_percent(Val(f.percent), m.bc)
                      ELSE Val(f.percent),
      load_1min |-> l[1], load_5min |-> l[2], load_15min |-> l[3]]

\* WSL: plain assignments; [[ $mem_total_gb -lt 1 ]] && mem_total_gb=1
WSLValues(m) ==
  LET f == MemFigures(m)
  IN [cpu_percent |-> Val(ProcStatPercent(m)),
      mem_used_gb |-> Val(f.used),
      mem_total_gb |-> Val(IF f.total < 1 THEN 1 ELSE f.total),
      mem_percent |-> Val(f.percent),
      load_1min |-> Val(m.load[1]), load_5min |-> Val(m.load[2]),
      load_15min |-> Val(m.load[3])]

\* macOS: awk rounds the user figure and adds what the second group of
\* /([0-9.]+)%[[:space:]]+user.*([0-9.]+)%[[:space:]]+sys/ holds, which after
\* the greedy .* is the last digit of the sys figure.  The three-argument
\* match is gawk's; another awk prints nothing and cpu_percent is reset to 0.
DarwinCpu(m) ==
  IF m.gawk THEN Val(((m.cpu[1] + 50) \div 100) + (m.cpu[2] % 10)) ELSE Val(0)

DarwinValues(m) ==
  LET f == MemFigures(m)
  IN [cpu_percent |-> DarwinCpu(m),
      mem_used_gb |-> Val(f.used), mem_total_gb |-> Val(f.total),
      mem_percent |-> Val(f.percent),
      load_1min |-> Val(m.load[1]), load_5min |-> Val(m.load[2]),
      load_15min |-> Val(m.load[3])]

\* Other platforms: cpu_percent=$(echo "$load_1min * 100" | bc -l | cut -d. -f1)
\* and (( cpu_percent > 100 )) && cpu_percent=100; without bc the value is
\* the empty string and the comparison fails
GenericCpu(m) ==
  IF ~m.bc THEN Blank
  ELSE IF m.load[1] > 100 THEN Val(100) ELSE Val(m.load[1])

GenericValues(m) ==
  LET f == MemFigures(m)
  IN [cpu_percent |-> GenericCpu(m),
      mem_used_gb |-> Val(f.used), mem_total_gb |-> Val(f.total),
      mem_percent |-> Val(f.percent),
      load_1min |-> Val(m.load[1]), load_5min |-> Val(m.load[2]),
      load_15min |-> Val(m.load[3])]

\* case "$platform" in Linux*) ... WSL*) ... Darwin*) ... *) ... esac
CollectedValues(m) ==
  CASE m.platform = "Linux" -> LinuxValues(m)
    [] m.platform = "WSL" -> WSLValues(m)
    [] m.platform = "Darwin" -> DarwinValues(m)
    [] OTHER -> GenericValues(m)

\* eval "$(<"$sys_cache")": the assignments of the lines the file holds
RECURSIVE EvalLines(_, _)
EvalLines(vs, lines) ==
  IF lines = <<>> THEN vs
  ELSE IF Head(lines) = Hole THEN EvalLines(vs, Tail(lines))
  ELSE EvalLines([vs EXCEPT ![Head(lines).var] = Head(lines).val], Tail(lines))

SysStep(p, r) == sys' = [sys EXCEPT !.run[p] = r]

SysFrame == UNCHANGED <<now, memoryCache, maxMemoryEntries, combinationCache,
                        fragmentCache, metrics, cfg, out, last, prev, calls,
                        getRes, origin, opt, sess, runVars, lockVars, color,
                        inst>>

InitSystem ==
  /\ InitGenerator
  /\ maxMemoryEntries = defaultMaxMemoryEntries
  /\ cfg = NoConfig
  /\ clock = StartClock
  /\ disk = [d \in Domains |-> NoFile]
  /\ proc = [p \in Procs |-> NoProc]
  /\ InitLockFiles
  /\ sess = NoSession
  /\ color = NoColor
  /\ \E pf \in Platforms, b \in BOOLEAN, g \in BOOLEAN, c \in CpuReadings,
        m \in MemReadings, l \in LoadReadings :
       sys = [NoSystem EXCEPT !.platform = pf, !.bc = b, !.gawk = g,
                              !.cpu = c, !.mem = m, !.load = l]
  /\ inst = NoInstall

\* The block starts: the seven variables are set to 0
StartSystem(p) ==
  /\ sys.run[p].pc = "idle"
  /\ SysStep(p, [sys.run[p] EXCEPT !.pc = "check_cache"])
  /\ SysFrame

\* if [[ -f $sys_cache ]]: a file younger than sys_ttl is evaluated as it
\* is, an older one is removed
CheckSysCache(p, fresh) ==
  LET r == sys.run[p]
  IN /\ r.pc = "check_cache"
     /\ IF ~sys.file.exists
          THEN SysStep(p, [r EXCEPT !.pc = "collect"])
        ELSE IF fresh
          THEN SysStep(p, [r EXCEPT !.pc = "display", !.sys_cached = TRUE,
                                    !.vars = EvalLines(@, sys.file.lines)])
        ELSE sys' = [sys EXCEPT !.file = NoSysFile,
                                !.run[p] = [r EXCEPT !.pc = "collect"]]
     /\ SysFrame

\* The case on the platform
CollectSystem(p) ==
  LET r == sys.run[p]
  IN /\ r.pc = "collect"
     /\ SysStep(p, [r EXCEPT !.pc = "open", !.vars = CollectedValues(sys)])
     /\ SysFrame

\* { ... } > "$sys_cache": the redirection empties the file, or creates it
OpenSysCache(p) ==
  LET r == sys.run[p]
      ino == IF sys.file.exists THEN sys.file.ino ELSE p
  IN /\ r.pc = "open"
     /\ sys' = [sys EXCEPT !.file = [exists |-> TRUE, ino |-> ino, lines |-> <<>>],
                           !.run[p] = [r EXCEPT !.pc = "write", !.fd = ino]]
     /\ SysFrame

\* The lines of a file after line n is written at its place
PutLine(lines, n, line) ==
  [i \in 1..(IF n > Len(lines) THEN n ELSE Len(lines)) |->
     IF i = n THEN line ELSE IF i <= Len(lines) THEN lines[i] ELSE Hole]

\* The next echo of the group, at the place the descriptor has reached; a
\* file removed in the meantime is no longer under its name
WriteSysLine(p) ==
  LET r == sys.run[p]
      name == SysCacheOrder[r.wrote + 1]
  IN /\ r.pc = "write"
     /\ sys' = [sys EXCEPT
          !.file = IF sys.file.exists /\ sys.file.ino = r.fd
                     THEN [@ EXCEPT !.lines =
                             PutLine(@, r.wrote + 1,
                                     [var |-> name, val |-> r.vars[name]])]
                     ELSE @,
          !.run[p] = [r EXCEPT !.wrote = @ + 1,
                               !.pc = IF r.wrote + 1 = sysCacheLines
                                        THEN "display" ELSE "write"]]
     /\ SysFrame

\* generateSystemDisplayCode prints the values
DisplaySystem(p) ==
  LET r == sys.run[p]
  IN /\ r.pc = "display"
     /\ SysStep(p, [r EXCEPT !.pc = "done", !.shown = TRUE])
     /\ SysFrame

NextSystem ==
  \/ \E p \in SysRuns : StartSystem(p)
  \/ \E p \in SysRuns, fresh \in BOOLEAN : CheckSysCache(p, fresh)
  \/ \E p \in SysRuns : CollectSystem(p)
  \/ \E p \in SysRuns : OpenSysCache(p)
  \/ \E p \in SysRuns : WriteSysLine(p)
  \/ \E p \in SysRuns : DisplaySystem(p)

SpecSystem == InitSystem /\ [][NextSystem]_vars

-----------------------------------------------------------------------------
(* utils/installer.ts and the installation step of initCommand             *)
(* (cli/commands.ts): statusline.sh and settings.json in the .claude       *)
(* directory.  An error is the sequence of the pieces of its message.      *)

\* statusline.sh before the installation: none, or an older script
ScriptsBefore == {"none", "old"}

\* The statusLine of an existing settings.json: none, the command the
\* installer writes, another command whose text contains 'statusline.sh',
\* or a command that does not
StatusLines == {"none", "same", "other_statusline_sh", "foreign"}

SettingsBefore ==
  {NoSettings, [state |-> "invalid", other |-> "model", statusLine |-> "foreign"]}
  \cup {[state |-> "valid", other |-> o, statusLine |-> l] :
          o \in {"none", "model"}, l \in StatusLines}

\* What inquirer.prompt does: the promise resolves with the answer, or rejects
PromptOutcomes == {"yes", "no", "reject"}

\* new Error(`Failed to install statusline: ${error.message}`)
WrapError(message) == <<"Failed to install statusline: ">> \o message

\* existingStatusLine.command?.includes('statusline.sh')
isOurStatusline(l) == l \in {"same", "other_statusline_sh"}

InstStep(r) == inst' = r

InstFrame == UNCHANGED <<now, memoryCache, maxMemoryEntries, combinationCache,
                         fragmentCache, metrics, cfg, out, last, prev, calls,
                         getRes, origin, opt, sess, runVars, lockVars, color,
                         sys>>

InitInstall ==
  /\ InitGenerator
  /\ maxMemoryEntries = defaultMaxMemoryEntries
  /\ cfg = NoConfig
  /\ clock = StartClock
  /\ disk = [d \in Domains |-> NoFile]
  /\ proc = [p \in Procs |-> NoProc]
  /\ InitLockFiles
  /\ sess = NoSession
  /\ color = NoColor
  /\ sys = NoSystem
  /\ \E f \in ScriptsBefore, g \in SettingsBefore :
       inst = [NoInstall EXCEPT !.script = f, !.settings = g,
                                !.before = [script |-> f, settings |-> g]]

\* installStatusline is called; fs.access(scriptPath)
AccessScript ==
  /\ inst.pc = "idle"
  /\ InstStep([inst EXCEPT !.pc = IF inst.script # "none" THEN "confirm_overwrite"
                                 ELSE "write_script"])
  /\ InstFrame

\* The prompt 'statusline.sh already exists. Overwrite?'.  The catch around
\* fs.access and the prompt takes a rejected prompt for a missing file.
ConfirmOverwrite(answer) ==
  /\ inst.pc = "confirm_overwrite"
  /\ InstStep([inst EXCEPT !.pc = "write_script", !.overwrite = answer,
                          !.shouldWrite = IF answer = "reject" THEN @
                                          ELSE answer = "yes"])
  /\ InstFrame

\* if (shouldWrite) fs.writeFile(scriptPath, ...) else throw
WriteScript(ok) ==
  /\ inst.pc = "write_script"
  /\ IF ~inst.shouldWrite
       THEN InstStep([inst EXCEPT !.pc = "thrown",
                                 !.error = WrapError(<<"USER_CANCELLED_OVERWRITE">>)])
     ELSE IF ok
       THEN InstStep([inst EXCEPT !.pc = "read_settings", !.script = "new"])
     ELSE InstStep([inst EXCEPT !.pc = "thrown",
                               !.error = WrapError(<<"EACCES">>)])
  /\ InstFrame

\* updateSettingsJson reads and parses settings.json; a missing or
\* unparseable file leaves settings = {}
ReadSettings ==
  LET obj == IF inst.settings.state = "valid" THEN inst.settings ELSE NoSettings
  IN /\ inst.pc = "read_settings"
     /\ InstStep([inst EXCEPT
          !.obj = obj,
          !.pc = IF obj.statusLine # "none" /\ ~isOurStatusline(obj.statusLine)
                   THEN "confirm_replace" ELSE "write_settings"])
     /\ InstFrame

\* The prompt 'settings.json already has a statusLine configured. Replace it?'
ConfirmReplace(answer) ==
  /\ inst.pc = "confirm_replace"
  /\ InstStep(CASE answer = "yes" ->
                     [inst EXCEPT !.pc = "write_settings", !.replace = answer]
                [] answer = "no" ->
                     [inst EXCEPT !.pc = "returned", !.replace = answer]
                [] OTHER ->
                     [inst EXCEPT !.pc = "thrown", !.replace = answer,
                                  !.settingsFailed = TRUE,
                                  !.error = WrapError(<<"SETTINGS_UPDATE_FAILED">>)])
  /\ InstFrame

\* settings.statusLine = {...}; fs.writeFile(settingsPath, JSON.stringify(settings))
WriteSettings(ok) ==
  /\ inst.pc = "write_settings"
  /\ IF ok
       THEN InstStep([inst EXCEPT
              !.pc = "returned",
              !.settings = [state |-> "valid", other |-> inst.obj.other,
                            statusLine |-> "same"]])
       ELSE InstStep([inst EXCEPT !.pc = "thrown", !.settingsFailed = TRUE,
                                 !.error = WrapError(<<"SETTINGS_UPDATE_FAILED">>)])
  /\ InstFrame

\* initCommand after the call: the success messages, or the handler the
\* message of the error selects
ReportInstall ==
  /\ inst.pc \in {"returned", "thrown"}
  /\ InstStep([inst EXCEPT
       !.pc = "done",
       !.report = IF inst.pc = "returned" THEN "success"
                  ELSE IF inst.error = <<"USER_CANCELLED_OVERWRITE">> THEN "cancelled"
                  ELSE IF inst.error = <<"SETTINGS_UPDATE_FAILED">> THEN "manual"
                  ELSE "error"])
  /\ InstFrame

NextInstall ==
  \/ AccessScript
  \/ \E answer \in PromptOutcomes : ConfirmOverwrite(answer)
  \/ \E ok \in BOOLEAN : WriteScript(ok)
  \/ ReadSettings
  \/ \E answer \in PromptOutcomes : ConfirmReplace(answer)
  \/ \E ok \in BOOLEAN : WriteSettings(ok)
  \/ ReportInstall

SpecInstall == InitInstall /\ [][NextInstall]_vars

-----------------------------------------------------------------------------
(* Properties *)

\* C1: for every configuration whose feature set matches one of the common
\* shapes, the script of the common-config path is behaviourally equivalent
\* to the script the general assembly produces for the same configuration:
\* the same data-collection blocks, with the same caching and timeout guards,
\* and the same display blocks in the same order.
C1_CommonPathEquivalent ==
  last.path = "common" =>
    LET general == AssembleScript(cfg, <<>>, maxMemoryEntries, now).script
        behaviour(s) ==
          LET b == SelectSeq(s, LAMBDA x : x.stage \in {"data", "display"})
          IN [i \in 1..Len(b) |->
                [stage |-> b[i].stage, id |-> b[i].id, parts |-> b[i].parts,
                 attrs |-> b[i].attrs]]
    IN behaviour(out) = behaviour(general)

\* C2: two configurations that differ in any field (a style flag, a
\* systemMonitoring value) never share a whole-script cache entry: a call
\* served from a cache returns a script that was generated for a configuration
\* equal to its own in every field, the feature list taken as a set.
C2_NoSharedEntry ==
  last.path \in {"combination_hit", "memory_hit"} =>
    [last.servedFor EXCEPT !.features = JsSort(@)]
      = [last.input EXCEPT !.features = JsSort(@)]

\* C3: generating twice from the same configuration yields the same output,
\* be the second call served from a cache or regenerated, whatever the two
\* points in time.
C3_SameConfigSameOutput ==
  (calls >= 2 /\ last.input = prev.input) => out = prev.out

\* C4: a call that finds the whole-script entry of its configuration present
\* and unexpired returns the stored string and runs no generation, assembly or
\* optimization; after a call with the identical configuration that string is
\* the one the first call returned.
C4_LiveEntryServedVerbatim ==
  /\ last.live => (out = last.stored /\ ~last.assembled)
  /\ (calls >= 2 /\ last.input = prev.input /\ last.live) => out = prev.out

\* C4: two calls with one configuration, the second within the lifetime of
\* the entry the first one stored in the memory cache
C4_Witness ==
  /\ calls >= 2
  /\ last.input = prev.input
  /\ last.live
  /\ last.path = "memory_hit"
  /\ out # <<>>

\* C5: two calls whose configurations differ only in the order of the feature
\* list have the same whole-script key on the common-config path and on the
\* general path, and the second call returns what the first returned.
C5_FeatureOrderIrrelevant ==
  ( /\ calls >= 2
    /\ last.input # prev.input
    /\ [last.input EXCEPT !.features = JsSort(@)]
         = [prev.input EXCEPT !.features = JsSort(@)] )
  => /\ generateTemplateKey(last.input) = generateTemplateKey(prev.input)
     /\ WholeScriptKey(last.input) = WholeScriptKey(prev.input)
     /\ out = prev.out

\* C6: for every feature tag f, the generated script holds the display
\* fragment of f exactly once if f is selected and not at all if it is not,
\* on both generation paths.  Stated for the configurations with the usage
\* integration on, where the usage fragments are generated.
C6_EachTagDisplayedOnce ==
  (calls >= 1 /\ cfg.ccusageIntegration) =>
    LET tags == Join([i \in 1..Len(out) |->
                        IF out[i].stage = "display" THEN out[i].parts ELSE <<>>])
        count(f) == Cardinality({i \in 1..Len(tags) : tags[i] = f})
    IN \A f \in Features : count(f) = IF Has(cfg, f) THEN 1 ELSE 0

\* C7: the display stage holds the combined usage render block exactly once
\* whenever one of usage, session, tokens, burnrate is selected, and the
\* system render block exactly once whenever one of cpu, memory, load is
\* selected; none is emitted twice or left out.  Stated for the
\* configurations with the usage integration on.
C7_CombinedBlocksOnce ==
  (calls >= 1 /\ cfg.ccusageIntegration) =>
    LET n(id) == Cardinality({i \in 1..Len(out) : out[i].id = id})
    IN /\ n("display_usage") = (IF HasUsage(cfg) THEN 1 ELSE 0)
       /\ n("display_system") = (IF HasSystem(cfg) THEN 1 ELSE 0)

\* C8: the blocks of a generated script stand in the stage order header,
\* logging, one stdin read, color setup, basic colors, utilities (usage, git,
\* system), data collection (basics, git, usage, system), logging output,
\* display; and the display fragments stand in the priority order directory,
\* git, model, cpu, memory, load, usage, session, tokens, burnrate.
C8_StageOrder ==
  calls >= 1 =>
    LET rank(b) ==
          CASE b.stage = "header" -> 1
            [] b.stage = "logging" -> 2
            [] b.stage = "stdin" -> 3
            [] b.stage = "colors" -> 4
            [] b.stage = "basic_colors" -> 5
            [] b.id = "utilities_usage" -> 6
            [] b.id = "utilities_git" -> 7
            [] b.id = "utilities_system" -> 8
            [] b.id = "utilities_json" -> 9
            [] b.id = "data_basics" -> 10
            [] b.id = "data_git" -> 11
            [] b.id = "data_usage" -> 12
            [] b.id = "data_system" -> 13
            [] b.stage = "logging_output" -> 14
            [] b.stage = "display" -> 15
        tags == Join([i \in 1..Len(out) |->
                        IF out[i].stage = "display" THEN out[i].parts ELSE <<>>])
        pri(f) == CHOOSE k \in 1..Len(featurePriority) : featurePriority[k] = f
    IN /\ \A i, j \in 1..Len(out) : i < j => rank(out[i]) <= rank(out[j])
       /\ Cardinality({i \in 1..Len(out) : out[i].stage = "stdin"}) = 1
       /\ \A i, j \in 1..Len(tags) : i < j => pri(tags[i]) <= pri(tags[j])

\* C9: in every generated script each variable or helper a block refers to is
\* set or defined by that block or an earlier one: the display reads what the
\* data collection set, the logging block reads the input after the stdin
\* read, and rst and the color helpers are defined before the display calls
\* them.
C9_DefinedBeforeUse ==
  calls >= 1 =>
    \A i \in 1..Len(out) :
      out[i].refs \subseteq UNION {out[j].defs \cup out[j].jq : j \in 1..i}

\* C10: getFromMemory(key) returns the stored value iff an entry for key
\* exists and now <= expiry; such a hit adds exactly one to the hit counter of
\* the entry; an entry that has expired is deleted by the access and the call
\* reports a miss.
C10_GetFromMemory ==
  getRes.op = "get" =>
    /\ getRes.hit <=> (getRes.present /\ getRes.at <= getRes.expiry)
    /\ getRes.hit =>
         /\ getRes.value = getRes.stored
         /\ MapHas(memoryCache, getRes.key)
         /\ MapGet(memoryCache, getRes.key).hits = getRes.hits + 1
         /\ Len(memoryCache) = getRes.sizeBefore
    /\ ~getRes.hit =>
         /\ getRes.value = <<>>
         /\ ~MapHas(memoryCache, getRes.key)

\* C10: a read of an entry after its expiry, which had been read in time
\* before
C10_Witness ==
  /\ getRes.op = "get"
  /\ getRes.present
  /\ getRes.at > getRes.expiry
  /\ getRes.hits >= 1
  /\ ~getRes.hit
  /\ ~MapHas(memoryCache, getRes.key)

\* C11: when setInMemory finds the cache at capacity, the entries that have
\* expired are removed first; only if the cache is then still at capacity are
\* entries of the lowest hit counts removed, none of them while an entry of a
\* strictly lower hit count is kept; afterwards there is room for the new
\* entry, so the cache holds no more than maxMemoryEntries entries with it.
C11_EvictionMakesRoom ==
  (getRes.op = "set" /\ getRes.sizeBefore >= maxMemoryEntries) =>
    LET b == getRes.before
        others == {i \in 1..Len(b) : b[i].k # getRes.key}
        expired == {i \in others : getRes.at > b[i].e.expiry}
        kept(i) == MapHas(memoryCache, b[i].k)
    IN /\ \A i \in expired : ~kept(i)
       /\ Len(b) - Cardinality(expired) < maxMemoryEntries =>
            \A i \in others \ expired : kept(i)
       /\ \A i, j \in others \ expired :
            (~kept(i) /\ kept(j)) => b[i].e.hits <= b[j].e.hits
       /\ Len(memoryCache) <= maxMemoryEntries

-----------------------------------------------------------------------------
(* The generator over time, on configurations that share fragments: the     *)
(* same git and usage settings under different whole-script keys            *)

FragmentPool ==
  { Minimal(<<"git", "tokens">>, TRUE),
    Config(<<"git", "tokens">>, TRUE, "detailed", TRUE, TRUE, FALSE, NoSM),
    Minimal(<<"git">>, FALSE),
    Config(<<"git", "cpu">>, TRUE, "compact", TRUE, FALSE, FALSE, DefaultSM),
    Config(<<"cpu">>, TRUE, "compact", TRUE, FALSE, TRUE, DefaultSM) }

GenerateFragments == \E c \in FragmentPool : GenerateBashStatusline(c)

NextFragments == GenerateFragments \/ Tick

SpecFragments == Init /\ [][NextFragments]_vars

\* C12: fragment-level memory caching is transparent: after any sequence of
\* generator calls, a script assembled with fragments taken from the memory
\* cache is the script the same call assembles on an empty cache.
C12_FragmentCacheTransparent ==
  last.path = "general" =>
    out = AssembleScript(cfg, <<>>, maxMemoryEntries, last.at).script

\* C12: a script was assembled of which a fragment came from the memory
\* cache, stored there by a call with another configuration
C12_Witness ==
  /\ last.path = "general"
  /\ last.fragmentHits # {}
  /\ calls >= 2
  /\ out # <<>>

-----------------------------------------------------------------------------
(* The generator over longer times: one configuration of each path, and     *)
(* time that passes beyond the lifetimes of the whole-script entries        *)

StalePool ==
  { Minimal(<<"directory", "model">>, TRUE),
    Minimal(<<"directory", "git", "model">>, FALSE),
    Minimal(<<"git", "tokens">>, TRUE) }

GenerateStale == \E c \in StalePool : GenerateBashStatusline(c)

NextStale == GenerateStale \/ TickCache

SpecStale == Init /\ [][NextStale]_vars

\* C13: a cached whole script is never returned once it is stale: a call
\* served from a whole-script cache returns a script that was stored no longer
\* ago than the lifetime of its entry (memoryTTL for the memory cache of the
\* general path, templateCombinationTTL for the combination cache of the
\* common-config path); after that the script is regenerated.
C13_StaleNeverReturned ==
  last.path \in {"combination_hit", "memory_hit"} =>
    last.at <= out[1].n[1]
               + (IF last.path = "memory_hit" THEN memoryTTL
                  ELSE templateCombinationTTL)

\* C14: if an exception is thrown inside a rewrite pass or inside the
\* validation, optimizeBashCode returns its input unchanged, whatever the
\* passes before had rewritten, and the exception does not reach the caller.
C14_ExceptionRollsBack ==
  (opt.called /\ opt.fault # "none") =>
    (opt.output = opt.input /\ opt.caught /\ ~opt.thrown)

\* C14: an exception thrown after a pass had rewritten the text
C14_Witness ==
  /\ opt.called
  /\ opt.fault \in {"reduceSubshells", "validateOptimizations"}
  /\ opt.optimized # opt.input
  /\ opt.output = opt.input

C16_ValidationFailsOpen ==
  (opt.called /\ opt.fault = "none" /\ opt.issues # {}) =>
    (opt.output = opt.optimized /\ ~opt.caught /\ ~opt.thrown)

\* C16: a validation that found an issue in a text the passes had rewritten
C16_Witness ==
  /\ opt.called
  /\ opt.fault = "none"
  /\ opt.issues # {}
  /\ opt.optimized # opt.input
  /\ opt.output # opt.input

\* C17: an invocation that takes the content of a cache file for its result
\* found the file younger than the TTL of its domain and reads content that
\* passes the integrity check (complete, and what the script writes); one
\* that found the file too old or damaged has removed it and fetched anew.
C17_OnlyFreshIntactConsumed ==
  \A p \in Procs :
    (proc[p].pc = "done" /\ proc[p].use = "cache") =>
      /\ proc[p].age < cacheTTL(proc[p].dom)
      /\ validate_cache_integrity(proc[p].got)

\* C18: every cache file the script has written came to its name by the
\* rename of a temporary file, and the content an invocation takes from a
\* cache file is the complete content of one write.
C18_AtomicWrites ==
  /\ \A d \in Domains : disk[d].exists => disk[d].by \in {"rename", "outside"}
  /\ \A p \in Procs :
       (proc[p].pc = "done" /\ proc[p].use = "cache") => Complete(proc[p].got)

\* C19: an invocation that found the usage cache file missing when it
\* tested or read it, has gone on to fetch fresh data.
C19_MissingFileIsMiss ==
  \A p \in Procs :
    (proc[p].pc = "done" /\ proc[p].dom = "usage" /\ proc[p].missing) =>
      proc[p].fetched

\* C20: every run of the usage tool is under a time limit of 3 seconds, and
\* no invocation of the script waits for the tool for ever.
C20_UsageToolTimeout ==
  \A p \in Procs :
    /\ proc[p].pc # "hung"
    /\ \A c \in proc[p].tools : c.limit = 3

\* C21: a run of the git block that takes "not a repository" from the
\* repo-detection cache has started no git command at all.
C21_NoGitOutsideRepository ==
  \A p \in Procs :
    (/\ proc[p].pc = "done"
     /\ proc[p].dom = "repo"
     /\ proc[p].use = "cache"
     /\ proc[p].got.intact
     /\ ~proc[p].inRepo) => proc[p].cmds = {}

\* C22: the script generated for a configuration with ccusageIntegration
\* off has no block that runs the usage tool, whatever the features and
\* whichever path generated it.
C22_NoUsageToolWhenDisabled ==
  (last.path # "none" /\ ~cfg.ccusageIntegration) =>
    \A i \in 1..Len(out) : "invokes_ccusage" \notin out[i].attrs

\* The invocations that have a process of the usage tool running
RunningUsageTool ==
  {p \in Procs : proc[p].pc \in {"ccusage_running", "npx_running", "hung"}}

\* C23: of the invocations of the generated script that overlap, at most one
\* has a process of the usage tool running at any time.
C23_OneUsageProcess == Cardinality(RunningUsageTool) <= 1

\* C24: in the lock protocol at most one invocation is running ccusage at
\* any time, whatever the interleaving, the stale-lock cleanup included.
C24_OneHolder == Cardinality({p \in Lockers : locker[p].pc = "ccusage"}) <= 1

\* C25: an invocation of the lock protocol that did not get the lock has,
\* when it ends, written the cached status line and ended normally.
C25_SkipGracefully ==
  \A p \in Lockers :
    (locker[p].pc = "done" /\ ~locker[p].acquired) =>
      (locker[p].output = "cached" /\ locker[p].status = "ok")

\* The lock is there and the invocation that took it has died
HeldByDead ==
  /\ lockDir
  /\ \E p \in Lockers : locker[p].pc = "crashed" /\ locker[p].acquired
  /\ \A p \in Lockers : Running(p) => ~locker[p].acquired

\* C26: a lock whose holder has died is removed at some later time, so that
\* an invocation can take it again.
C26_StaleLockRemoved == HeldByDead ~> ~lockDir

\* C27: when every invocation of the lock protocol has ended, neither the
\* lock directory nor the PID file is there.
C27_LockCleanedUp ==
  (\A p \in Lockers : locker[p].pc \in {"idle", "done"}) =>
    (~lockDir /\ ~pidFile.exists)

\* C27: all invocations have ended, one of them had the lock and another one
\* had skipped
C27_Witness ==
  /\ \A p \in Lockers : locker[p].pc = "done"
  /\ \E p \in Lockers : locker[p].acquired /\ locker[p].output = "fresh"
  /\ \E p \in Lockers : ~locker[p].acquired
  /\ ~lockDir /\ ~pidFile.exists


\* The stages of a script that runs as a statusline: the interpreter line,
\* the read of the JSON on standard input, and the render section
LooksLikeStatusline(script) ==
  /\ \E i \in 1..Len(script) : script[i].stage = "header"
  /\ \E i \in 1..Len(script) : script[i] \in Range(StdinRead)
  /\ \E i \in 1..Len(script) : script[i] \in Range(RenderHeader)

\* C28: generation on a configuration with an empty feature set is rejected
\* (no script is returned) or returns something that cannot be taken for a
\* working statusline.
C28_EmptyFeatureSetRejected ==
  (last.path # "none" /\ last.input.features = <<>>) =>
    (out = <<>> \/ ~LooksLikeStatusline(out))


\* The percentage of the session that has passed: the time since the start,
\* held between nothing and the whole session, over a session of at least
\* one second
SessionShare ==
  LET whole == IF sess.end_sec - sess.start_sec >= 1
                 THEN sess.end_sec - sess.start_sec ELSE 1
      since == sess.now_sec - sess.start_sec
      held == IF since <= 0 THEN 0 ELSE IF since >= whole THEN whole ELSE since
  IN (held * 100) \div whole

\* C29: for all start, end and current epoch values the session calculation
\* yields a percentage between 0 and 100 that equals elapsed*100/total after
\* clamping, and progress_bar(pct, width) prints exactly width cells, the
\* first pct*width/100 of them '=' and the rest '-'.
C29_SessionPercentAndBar ==
  /\ sess.ran =>
       /\ sess.pct \in 0..100
       /\ sess.pct = SessionShare
  /\ sess.barred =>
       /\ Len(sess.sess_bar) = sess.width
       /\ \A i \in 1..sess.width :
            sess.sess_bar[i] =
              (IF i <= (sess.pct * sess.width) \div 100 THEN "=" ELSE "-")

\* A bar was drawn for a clock reading after the end of a session that
\* ended before it started
C29_Witness ==
  /\ sess.barred
  /\ sess.end_sec < sess.start_sec
  /\ sess.now_sec > sess.start_sec
  /\ sess.width = 10
  /\ sess.pct = 100
  /\ sess.sess_bar = [i \in 1..10 |-> "="]


\* cpu_clr of the system block b of a script generated with colors: the
\* value of CLR for a CPU load of cpu_percent.  The block carries the two
\* numbers the generator wrote into the comparisons.
cpu_clr(b, cpu_percent) ==
  IF cpu_percent > b.n[1] THEN "1;31"
  ELSE IF cpu_percent > b.n[2] THEN "1;33"
  ELSE "1;32"

\* 110% of t, rounded down and rounded up
Floor110(t) == (11 * t) \div 10

Ceil110(t) == (11 * t + 9) \div 10

\* C30: for a configuration with the CPU threshold T the cpu_clr of the
\* returned script leaves the normal tier exactly when cpu_percent > T and
\* selects the critical tier exactly when cpu_percent is above 110% of T
\* (either rounding of 110% of T is accepted); no other threshold, and no
\* default, takes the place of the configured T.
C30_ConfiguredCpuThreshold ==
  (/\ last.path # "none"
   /\ Has(last.input, "cpu")
   /\ last.input.colors
   /\ last.input.systemMonitoring.present) =>
    LET T == last.input.systemMonitoring.cpuThreshold
    IN /\ \E i \in 1..Len(out) : out[i].id = "data_system"
       /\ \A i \in 1..Len(out) :
            out[i].id = "data_system" =>
              \A cpu_percent \in 0..100 :
                /\ cpu_clr(out[i], cpu_percent) # "1;32" <=> cpu_percent > T
                /\ cpu_percent > Ceil110(T) => cpu_clr(out[i], cpu_percent) = "1;31"
                /\ cpu_clr(out[i], cpu_percent) = "1;31" => cpu_percent > Floor110(T)


\* C31: in the color setup of a script generated with colors the
\* environment overrides come first: a non-empty FORCE_COLOR turns colors on,
\* a non-empty NO_COLOR without FORCE_COLOR turns them off, whatever TERM is,
\* and the deny-list of terminal names decides only when neither is set.
C31_OverridesFirst ==
  color.pc = "done" =>
    /\ color.FORCE_COLOR # "" => color.use_color = 1
    /\ (color.NO_COLOR # "" /\ color.FORCE_COLOR = "") => color.use_color = 0
    /\ (color.NO_COLOR = "" /\ color.FORCE_COLOR = "") =>
         (color.use_color = 0 <=> color.TERM \in DumbTerms)


\* The values are numbers, the percentages lie in [0, 100] and the memory
\* used does not exceed the total
SaneValues(vs) ==
  /\ \A i \in 1..Len(SysCacheOrder) : vs[SysCacheOrder[i]].num
  /\ vs.cpu_percent.v \in 0..100
  /\ vs.mem_percent.v \in 0..100
  /\ vs.mem_used_gb.v <= vs.mem_total_gb.v

\* C32: every CPU, memory and load value the system block displays or writes
\* to its cache is numeric, a percentage lies in [0, 100] and memory used
\* never exceeds memory total, on each platform branch and on the cache-read
\* path.
C32_SystemValuesValidated ==
  \A p \in SysRuns :
    /\ sys.run[p].shown => SaneValues(sys.run[p].vars)
    /\ sys.run[p].pc = "write" => SaneValues(sys.run[p].vars)


\* The display fragments of a script: the blocks of the render section that
\* print a segment
DisplayFragments(script) ==
  {i \in 1..Len(script) : script[i].stage = "display" /\ script[i].parts # <<>>}

\* C33: emoji glyphs appear in the display fragments of a generated script
\* if and only if colors are enabled and custom emojis are not; otherwise
\* every display fragment uses its plain label prefix.
C33_EmojiIffColorsAndNotCustom ==
  last.path # "none" =>
    \A i \in DisplayFragments(out) :
      (out[i].attrs \cap {"emoji", "fixed_emoji"} # {})
        <=> (last.input.colors /\ ~last.input.customEmojis)


\* C34: installStatusline never overwrites an existing statusline.sh without
\* the user's confirmation: unless the answer to the prompt is yes, the
\* existing file is unchanged and settings.json is not modified.
C34_NoOverwriteWithoutConfirmation ==
  (inst.before.script # "none" /\ inst.overwrite # "yes") =>
    (inst.script = inst.before.script /\ inst.settings = inst.before.settings)

\* C35: installation preserves an existing settings.json: every key other
\* than statusLine keeps its value, and a statusLine that points to another
\* command is left as it was unless the user confirmed its replacement.
C35_SettingsPreserved ==
  inst.before.settings.state # "absent" =>
    /\ inst.settings.other = inst.before.settings.other
    /\ (inst.before.settings.statusLine \in {"other_statusline_sh", "foreign"}
        /\ inst.replace # "yes")
         => inst.settings.statusLine = inst.before.settings.statusLine

\* C36: each installation failure reaches its own handler in initCommand: a
\* declined overwrite is reported as a cancelled installation, a failed
\* settings.json update prints the manual configuration instructions.
C36_FailureHandlers ==
  inst.pc = "done" =>
    /\ inst.overwrite = "no" => inst.report = "cancelled"
    /\ inst.settingsFailed => inst.report = "manual"

\* C37: generateBashStatusline leaves the caller's Configuration as it was:
\* after the call, config.features holds the same elements in the same
\* order as before the call.
C37_ConfigNotModified ==
  last.path # "none" => cfg.features = last.input.features

\* C38: the memory cache never holds more than maxMemoryEntries entries,
\* after any sequence of setInMemory and getFromMemory calls and for every
\* configured capacity of at least one.
C38_MemoryCacheBounded ==
  Len(memoryCache) <= maxMemoryEntries

\* C39: optimizeBashCode is idempotent: applied to its own output it returns
\* that output unchanged, so a fragment that was optimized on its own is not
\* rewritten again when the whole script is optimized.
C39_OptimizeIdempotent ==
  (opt.called /\ opt.fault = "none") =>
    optimizeBashCodeText(opt.output, "none").output = opt.output

====
